---- MODULE Spec2Model ----
(***************************************************************************)
(* The progress engine of the e-learning backend (academics/views.py):     *)
(* quiz submission and cycling, next-quiz resolution, the module progress  *)
(* read, the video-progress view, the course listing and the course        *)
(* progress view, over the rows of the relational store.                   *)
(*                                                                         *)
(* One request is one synchronous handler invocation, so every handler is  *)
(* one action; SpecRace alone splits SubmitQuizView.post into its          *)
(* statements, to interleave two requests.  The catalogue (users, modules, *)
(* quizzes, videos) is authored outside the engine; it is drawn in Init,   *)
(* under SpecCourse staff add modules to it, and under SpecImport the      *)
(* populate_quizzes command adds quizzes.  SpecAccount is the accounts of  *)
(* the users app (users/views.py).                                         *)
(***************************************************************************)
EXTENDS Integers, Sequences, FiniteSets, TLC

(***************************************************************************)
(* Bounds of the model.                                                    *)
(***************************************************************************)
\* Weight of the largest catalogue: quizzes + videos (+ 1 for a second module).
CatalogSize == 3
\* Cap of UserModuleProgress.attempted (a PositiveIntegerField, unbounded).
MaxAttempted == 3
\* Largest number of questions of the quiz scored under SpecScore.
MaxScoreQuestions == 10
\* Under SpecScore, at most this many questions are not answered correctly (so
\* a quiz of at most this many questions gets every answer mapping).
MaxMissed == 2
\* Largest watched-seconds value a client reports, in half seconds.
MaxHalfSeconds == 4

(***************************************************************************)
(* Program constants.                                                      *)
(***************************************************************************)
\* passed = score >= 90
PassingScore == 90
HTTP_200_OK == 200
HTTP_401_UNAUTHORIZED == 401
HTTP_404_NOT_FOUND == 404
HTTP_500_INTERNAL_SERVER_ERROR == 500

(***************************************************************************)
(* Identifiers.                                                            *)
(***************************************************************************)
Users == {"u1", "u2"}
\* request.user of a request without credentials (AnonymousUser)
Anonymous == "anonymous"
Modules == {"m1", "m2"}
\* a module id no Module row has
UnknownModule == "m404"
NoModule == "none"
Quizzes == 1..CatalogSize
\* a quiz id no Quiz row has; also the None of an empty queryset's first()
NoQuiz == 0
Videos == 1..CatalogSize
\* dict.get(..., None) of a question without a submitted answer
NoAnswer == -1
\* a video id no VideoLecture row has
NoVideo == 0
\* request.data.get("watched_seconds") of a request without that key (None)
NoWatched == -1
\* c1 is the course of every module; c2 is a course without modules
Courses == {"c1", "c2"}
\* a course id no Course row has
UnknownCourse == "c404"

VARIABLES
    catalog,    \* the authored rows: users, Quiz(module, order, questions), VideoLecture(module)
    attempts,   \* UserQuizAttempt rows of each (user, quiz), in creation order
    modProg,    \* UserModuleProgress row of each (user, module): <<>> or <<row>>
    vidProg,    \* UserVideoProgress row of each (user, video): <<>> or <<row>>
    courseProg, \* UserCourseProgress row of each (user, course): <<>> or <<row>>
    last,       \* the last request and its response
    sheet,      \* SpecScore: the answer mapping the client submits; <<>> under Spec
    inflight,   \* SpecRace: the submissions being handled, statement by statement
    accounts    \* SpecAccount: the User row of each email: <<>> or <<row>>

vars == <<catalog, attempts, modProg, vidProg, courseProg, last, sheet, inflight, accounts>>
db == <<attempts, modProg, vidProg, courseProg>>
\* what no handler of the progress engine writes
static == <<catalog, sheet, inflight, accounts>>

(***************************************************************************)
(* The catalogue.                                                          *)
(***************************************************************************)
\* Quiz.order as the cycling algorithm assumes it (1..N within the module), or
\* as the populate_quizzes importer writes it (order=1 for every quiz).
OrderStyles == {"authored", "imported"}

\* A catalogue with nu users, quizzes 1..a in m1, quizzes a+1..a+b in m2,
\* videos 1..va in m1 and va+1..va+vb in m2; m2 exists when it owns something.
\* VideoLecture.duration is 2, 0, 1, 2, ... seconds for videos 1, 2, 3, 4, ...
Catalog(nu, a, b, va, vb, style) ==
    [ users        |-> IF nu = 1 THEN {"u1"} ELSE Users,
      modules      |-> IF b + vb > 0 THEN Modules ELSE {"m1"},
      quiz_module  |-> [q \in Quizzes |-> IF q <= a THEN "m1"
                                         ELSE IF q <= a + b THEN "m2" ELSE NoModule],
      quiz_order   |-> [q \in Quizzes |-> IF style = "imported" THEN 1
                                         ELSE IF q <= a THEN q ELSE q - a],
      questions    |-> [q \in Quizzes |-> 1 + ((q + 1) % 2)],
      video_module |-> [v \in Videos |-> IF v <= va THEN "m1"
                                        ELSE IF v <= va + vb THEN "m2" ELSE NoModule],
      duration     |-> [v \in Videos |-> (v + 1) % 3] ]

\* The catalogues explored: at most CatalogSize quizzes and videos in all, a
\* second module counting for one and owning no more than the first; a second
\* user with the catalogues of one quiz or one video; the imported order style
\* where it differs from the authored one (two quizzes or more in m1).
CatalogShapes ==
    { c \in (1..2) \X (0..CatalogSize) \X (0..1) \X (0..CatalogSize)
             \X (0..1) \X OrderStyles :
        /\ c[2] + c[3] + c[4] + c[5] + (IF c[3] + c[5] > 0 THEN 1 ELSE 0) <= CatalogSize
        /\ c[3] <= c[2] /\ c[5] <= c[4]
        /\ c[1] = 2 => c[2] + c[3] + c[4] + c[5] <= 1
        /\ c[6] = "imported" => c[2] >= 2 /\ c[3] + c[4] + c[5] = 0 }

Catalogs == { Catalog(c[1], c[2], c[3], c[4], c[5], c[6]) : c \in CatalogShapes }

\* Quiz.objects.filter(module=module)
QuizzesOf(m) == {q \in Quizzes : catalog.quiz_module[q] = m}
\* VideoLecture.objects.filter(module=module)
VideosOf(m) == {v \in Videos : catalog.video_module[v] = m}

(***************************************************************************)
(* Rows and queries.                                                       *)
(***************************************************************************)
\* UserModuleProgress field defaults
NewModuleProgress ==
    [video_completed |-> FALSE, quiz_passed |-> FALSE, attempted |-> 0,
     completed |-> FALSE, failed |-> FALSE]

\* UserVideoProgress field defaults
NewVideoProgress == [watched_seconds |-> 0, completed |-> FALSE]

\* UserQuizAttempt field defaults (score and passed)
NewQuizAttempt == [score |-> 0, passed |-> FALSE]

\* objects.get_or_create(...)[0] on a table unique per key: the row kept, or a new one
GetOrCreate(rows, new) == IF rows = <<>> THEN new ELSE rows[1]

RECURSIVE SumLen(_, _)
SumLen(rowsOf, S) ==
    IF S = {} THEN 0
    ELSE LET x == CHOOSE y \in S : TRUE
         IN Len(rowsOf[x]) + SumLen(rowsOf, S \ {x})

\* UserQuizAttempt.objects.filter(user=user, quiz__module=module).count(), on table att
AttemptCount(att, user, m) == SumLen(att[user], QuizzesOf(m))

\* DeleteAttempts keeping the rows marked passed
DeleteFailedAttempts(att, user, m) ==
    [att EXCEPT ![user] = [q \in Quizzes |->
        IF q \in QuizzesOf(m) THEN SelectSeq(@[q], LAMBDA row : row.passed) ELSE @[q]]]

\* UserQuizAttempt.objects.filter(user=user, quiz__module=module).delete(), on table att
DeleteAttempts(att, user, m) ==
    [att EXCEPT ![user] = [q \in Quizzes |-> IF q \in QuizzesOf(m) THEN <<>> ELSE @[q]]]

\* quizzes.order_by("order").first(): a quiz of least order (the store picks among
\* equal orders), None when the module has no quiz
FirstQuizzes(m) ==
    IF QuizzesOf(m) = {} THEN {NoQuiz}
    ELSE {q \in QuizzesOf(m) :
            \A r \in QuizzesOf(m) : catalog.quiz_order[q] <= catalog.quiz_order[r]}

(***************************************************************************)
(* Scoring (SubmitQuizView.post).                                          *)
(***************************************************************************)
\* question.options.filter(is_correct=True).first().id of question k
CorrectOption(k) == 2 * k - 1
\* the other option of question k
WrongOption(k) == 2 * k
\* an id no QuestionOption of a quiz of n questions has
UnknownOption(n) == 2 * n + 1
\* what a client may send as the option id of its answer to question k of a quiz
\* of n questions: nothing, 0, the correct or the wrong option of the question,
\* the correct option of another question, or an id of no option
AnswerIds(k, n) ==
    {NoAnswer, 0, CorrectOption(k), WrongOption(k), CorrectOption((k % n) + 1),
     UnknownOption(n)}
\* the answers to questions 1..k of a quiz of n questions
RECURSIVE AnswerSheets(_, _)
AnswerSheets(k, n) ==
    IF k = 0 THEN {<<>>}
    ELSE {Append(f, x) : f \in AnswerSheets(k - 1, n), x \in AnswerIds(k, n)}

\* request.data["answers"] for a quiz of n questions
AnswerMaps(n) == AnswerSheets(n, n)

\* request.data["answers"] of a client that answers each question with one of
\* the options of that question, or leaves it out
OptionMaps(n) ==
    {f \in AnswerMaps(n) :
        \A k \in 1..n : f[k] \in {NoAnswer, CorrectOption(k), WrongOption(k)}}

\* the answers to questions 1..k of a quiz of n questions of which at most
\* missed are not the correct option
RECURSIVE NearSheets(_, _, _)
NearSheets(k, n, missed) ==
    IF k = 0 THEN {<<>>}
    ELSE {Append(f, CorrectOption(k)) : f \in NearSheets(k - 1, n, missed)}
         \cup (IF missed = 0 THEN {}
               ELSE {Append(f, x) : f \in NearSheets(k - 1, n, missed - 1),
                                    x \in AnswerIds(k, n) \ {CorrectOption(k)}})

\* "if selected_answer_id and str(correct_option.id) == str(selected_answer_id)"
IsCorrect(k, selected_answer_id) ==
    /\ selected_answer_id # NoAnswer
    /\ selected_answer_id # 0
    /\ CorrectOption(k) = selected_answer_id

\* the loop over quiz.questions.all(): correct answers among questions 1..k
RECURSIVE CorrectAnswers(_, _)
CorrectAnswers(k, submitted_answers) ==
    IF k = 0 THEN 0
    ELSE CorrectAnswers(k - 1, submitted_answers)
         + (IF IsCorrect(k, submitted_answers[k]) THEN 1 ELSE 0)

\* score = (correct_answers / total_questions) * 100, kept in hundredths of a
\* point (the two decimal places of UserQuizAttempt.score)
Score(correct_answers, total_questions) ==
    (correct_answers * 100 * 100) \div total_questions

\* Passed with "score > 90"
PassedAbove(score) == score > PassingScore * 100

\* passed = score >= 90
Passed(score) == score >= PassingScore * 100

(***************************************************************************)
(* Responses.                                                              *)
(***************************************************************************)
Response(op, user, module_id, quiz_id, status, body) ==
    [op |-> op, user |-> user, module |-> module_id, quiz |-> quiz_id,
     status |-> status, body |-> body]

NoBody == [detail |-> "none"]

\* a response that is no 200: the status is all the claims read of it
ErrorResponse(op, status) == Response(op, Anonymous, NoModule, NoQuiz, status, NoBody)

(***************************************************************************)
(* Init: the catalogue is authored, no progress row exists yet (progress   *)
(* rows are created lazily by the handlers).                               *)
(***************************************************************************)
Init ==
    /\ catalog \in Catalogs
    /\ attempts = [u \in Users |-> [q \in Quizzes |-> <<>>]]
    /\ modProg = [u \in Users |-> [m \in Modules |-> <<>>]]
    /\ vidProg = [u \in Users |-> [v \in Videos |-> <<>>]]
    /\ courseProg = [u \in Users |-> [c \in Courses |-> <<>>]]
    /\ last = Response("init", Anonymous, NoModule, NoQuiz, HTTP_200_OK, NoBody)
    /\ sheet = <<>>
    /\ inflight = <<>>
    /\ accounts = <<>>

\* who may send a request: a registered user, or a caller without credentials
Callers == catalog.users \cup {Anonymous}
\* the module ids and quiz ids a request may name
ModuleIds == catalog.modules \cup {UnknownModule}
QuizIds == {q \in Quizzes : catalog.quiz_module[q] \in catalog.modules} \cup {NoQuiz}

(***************************************************************************)
(* SubmitQuizView.post: POST modules/<module_id>/quiz/submit/              *)
(***************************************************************************)
\* CycleClosed without "quiz.order == total_quizzes"
CycleClosedAnyQuiz(quiz_id, total_quizzes, attempted_count) ==
    (attempted_count \div total_quizzes) * total_quizzes = attempted_count

\* CycleClosed with the attempt rows counted before the row of this submission
\* is written
CycleClosedBeforeWrite(quiz_id, total_quizzes, attempted_count) ==
    LET cycle_completed == (attempted_count - 1) \div total_quizzes
    IN /\ catalog.quiz_order[quiz_id] = total_quizzes
       /\ cycle_completed * total_quizzes = attempted_count - 1

\* "if quiz.order == total_quizzes and (cycle_completed * total_quizzes ==
\*  attempted_quizzes.count())", evaluated after the attempt row is written
CycleClosed(quiz_id, total_quizzes, attempted_count) ==
    LET cycle_completed == attempted_count \div total_quizzes
    IN /\ catalog.quiz_order[quiz_id] = total_quizzes
       /\ cycle_completed * total_quizzes = attempted_count

\* UpsertAttempt with create() in place of get_or_create()
InsertAttempt(rows, score, passed) ==
    Append(rows, [NewQuizAttempt EXCEPT !.score = score, !.passed = passed])

\* UserQuizAttempt.objects.get_or_create(user=user, quiz=quiz), then score and
\* passed are set and the row is saved
UpsertAttempt(rows, score, passed) ==
    IF rows = <<>> THEN <<[NewQuizAttempt EXCEPT !.score = score, !.passed = passed]>>
    ELSE <<[rows[1] EXCEPT !.score = score, !.passed = passed]>>

\* ScoredModuleProgress with completed = passed
ScoredModuleProgressNoVideo(module_progress, passed) ==
    [module_progress EXCEPT !.quiz_passed = passed, !.completed = passed]

\* "module_progress.quiz_passed = passed; module_progress.completed =
\*  module_progress.video_completed and passed"
ScoredModuleProgress(module_progress, passed) ==
    [module_progress EXCEPT !.quiz_passed = passed,
                            !.completed = module_progress.video_completed /\ passed]

\* FailedModuleProgress without "module_progress.attempted += 1"
FailedModuleProgressNoCount(module_progress) ==
    [module_progress EXCEPT !.completed = FALSE, !.quiz_passed = FALSE]

\* the "if not passed:" branch's writes to the module-progress row
FailedModuleProgress(module_progress) ==
    [module_progress EXCEPT !.completed = FALSE, !.quiz_passed = FALSE,
                            !.attempted = @ + 1]

SubmitQuiz(user, module_id, quiz_id, submitted_answers) ==
    IF user = Anonymous THEN
        \* permission_classes = [IsAuthenticated]
        /\ last' = ErrorResponse("submitQuiz", HTTP_401_UNAUTHORIZED)
        /\ UNCHANGED <<static, db>>
    ELSE IF module_id \notin catalog.modules \/ quiz_id \notin QuizzesOf(module_id) THEN
        \* get_object_or_404(Module, ...), get_object_or_404(Quiz, module=module, ...)
        /\ last' = ErrorResponse("submitQuiz", HTTP_404_NOT_FOUND)
        /\ UNCHANGED <<static, db>>
    ELSE IF catalog.questions[quiz_id] = 0 \/ Len(attempts[user][quiz_id]) > 1 THEN
        \* ZeroDivisionError in the score; MultipleObjectsReturned in get_or_create
        /\ last' = ErrorResponse("submitQuiz", HTTP_500_INTERNAL_SERVER_ERROR)
        /\ UNCHANGED <<static, db>>
    ELSE
        LET total_questions == catalog.questions[quiz_id]
            correct_answers == CorrectAnswers(total_questions, submitted_answers)
            score == Score(correct_answers, total_questions)
            passed == Passed(score)
            written == [attempts EXCEPT ![user][quiz_id] = UpsertAttempt(@, score, passed)]
            progress0 == GetOrCreate(modProg[user][module_id], NewModuleProgress)
            progress1 == ScoredModuleProgress(progress0, passed)
            total_quizzes == Cardinality(QuizzesOf(module_id))
            attempted_count == AttemptCount(written, user, module_id)
            module_progress == IF passed THEN progress1 ELSE FailedModuleProgress(progress1)
        IN /\ passed \/ progress1.attempted < MaxAttempted
           /\ attempts' = IF ~passed /\ CycleClosed(quiz_id, total_quizzes, attempted_count)
                          THEN DeleteAttempts(written, user, module_id)
                          ELSE written
           /\ modProg' = [modProg EXCEPT ![user][module_id] = <<module_progress>>]
           /\ last' = Response("submitQuiz", user, module_id, quiz_id, HTTP_200_OK,
                               [score |-> score, quiz_passed |-> passed,
                                module_completed |-> module_progress.completed])
           /\ UNCHANGED <<static, courseProg, vidProg>>

\* The submissions a caller may send: a quiz id (or none) with every mapping of
\* the questions to their options for a quiz of the module named, the empty
\* mapping otherwise (SpecScore sends the ids that are no option of the
\* question).  A caller without credentials is answered before the request is
\* read.
SubmitRequests(user) ==
    IF user = Anonymous THEN {<<UnknownModule, NoQuiz, <<>> >>}
    ELSE {<<UnknownModule, NoQuiz, <<>> >>}
         \cup {r \in {<<m, q, <<>> >> : m \in catalog.modules, q \in QuizIds} :
                    r[2] \notin QuizzesOf(r[1])}
         \cup UNION { {<<catalog.quiz_module[q], q, f>> : f \in OptionMaps(catalog.questions[q])} :
                        q \in QuizIds \ {NoQuiz} }

(***************************************************************************)
(* ModuleProgressView.get: GET progress/module/<module_id>/                *)
(***************************************************************************)
\* (completed_videos / total_videos) * 100 if total_videos > 0 else 0, in hundredths
Percentage(part, total) == IF total > 0 THEN (part * 100 * 100) \div total ELSE 0

\* AllAttempted with any() in place of all()
AnyAttempted(user, module_id) ==
    \E q \in QuizzesOf(module_id) : attempts[user][q] # <<>>

\* "all(quiz.id in user_attempts for quiz in quizzes)"
AllAttempted(user, module_id) ==
    \A q \in QuizzesOf(module_id) : attempts[user][q] # <<>>

\* user_attempts[quiz.id] of the dict comprehension over the user's attempt rows
\* of the module: the row of the quiz read last, i.e. the latest of the quiz
UserAttempt(user, q) == attempts[user][q][Len(attempts[user][q])]

\* "all((not user_attempts[quiz.id].passed) for quiz in quizzes if quiz.id in user_attempts)"
NonePassed(user, module_id) ==
    \A q \in QuizzesOf(module_id) :
        attempts[user][q] # <<>> => ~UserAttempt(user, q).passed

\* the quiz_progress entry of quiz q in the stuck state
StuckEntry(q) ==
    [quiz_id |-> q, call_next |-> TRUE, attempted |-> FALSE, passed |-> FALSE]

\* the quiz_progress entry of quiz q otherwise
QuizEntry(user, q) ==
    IF attempts[user][q] # <<>>
    THEN [quiz_id |-> q, attempted |-> TRUE, passed |-> UserAttempt(user, q).passed]
    ELSE [quiz_id |-> q, attempted |-> FALSE, passed |-> FALSE]

\* all_quizzes_passed as the else branch leaves it
AllQuizzesPassed(user, module_id) ==
    \A q \in QuizzesOf(module_id) :
        attempts[user][q] # <<>> /\ UserAttempt(user, q).passed

\* ReadModuleProgress counting the read as an attempt
ReadModuleProgressCounting(module_progress, video_completed, all_quizzes_passed) ==
    [module_progress EXCEPT !.video_completed = video_completed,
                            !.quiz_passed = all_quizzes_passed,
                            !.completed = video_completed /\ all_quizzes_passed,
                            !.attempted = IF @ < MaxAttempted THEN @ + 1 ELSE @]

\* "module_progress.video_completed = completed_videos == total_videos;
\*  module_progress.quiz_passed = all_quizzes_passed;
\*  module_progress.completed = is_completed", is_completed being
\* completed_videos == total_videos and all_quizzes_passed
ReadModuleProgress(module_progress, video_completed, all_quizzes_passed) ==
    [module_progress EXCEPT !.video_completed = video_completed,
                            !.quiz_passed = all_quizzes_passed,
                            !.completed = video_completed /\ all_quizzes_passed]

\* AnonymousSnapshot counting every video of the module as watched
AnonymousSnapshotWatched(module_id) ==
    [completed |-> FALSE,
     videos |-> [v \in VideosOf(module_id) |-> TRUE],
     total_videos |-> Cardinality(VideosOf(module_id)),
     total_watched |-> Cardinality(VideosOf(module_id)),
     video_completed |-> FALSE,
     progress_percentage |-> 0,
     quiz_progress |-> [q \in QuizzesOf(module_id) |->
                          [quiz_id |-> q, attempted |-> FALSE, passed |-> FALSE,
                           call_next |-> FALSE]],
     quiz_passed |-> FALSE,
     attempted |-> 0]

\* the snapshot an anonymous caller gets
AnonymousSnapshot(module_id) ==
    [completed |-> FALSE,
     videos |-> [v \in VideosOf(module_id) |-> FALSE],
     total_videos |-> Cardinality(VideosOf(module_id)),
     total_watched |-> 0,
     video_completed |-> FALSE,
     progress_percentage |-> 0,
     quiz_progress |-> [q \in QuizzesOf(module_id) |->
                          [quiz_id |-> q, attempted |-> FALSE, passed |-> FALSE,
                           call_next |-> FALSE]],
     quiz_passed |-> FALSE,
     attempted |-> 0]

GetModuleProgress(user, module_id) ==
    IF module_id \notin catalog.modules THEN
        /\ last' = ErrorResponse("getModuleProgress", HTTP_404_NOT_FOUND)
        /\ UNCHANGED <<static, db>>
    ELSE IF user = Anonymous THEN
        /\ last' = Response("getModuleProgress", user, module_id, NoQuiz,
                            HTTP_200_OK, AnonymousSnapshot(module_id))
        /\ UNCHANGED <<static, db>>
    ELSE
        LET videos == VideosOf(module_id)
            quizzes == QuizzesOf(module_id)
            total_videos == Cardinality(videos)
            progress0 == GetOrCreate(modProg[user][module_id], NewModuleProgress)
            \* UserVideoProgress.objects.get_or_create(user=user, video=video), each video
            video_rows == [v \in Videos |->
                             IF v \in videos
                             THEN <<GetOrCreate(vidProg[user][v], NewVideoProgress)>>
                             ELSE vidProg[user][v]]
            completed_videos == Cardinality({v \in videos : video_rows[v][1].completed})
            stuck == AllAttempted(user, module_id) /\ NonePassed(user, module_id)
            all_quizzes_passed == IF stuck THEN FALSE
                                  ELSE AllQuizzesPassed(user, module_id)
            is_completed == completed_videos = total_videos /\ all_quizzes_passed
            module_progress ==
                ReadModuleProgress(progress0, completed_videos = total_videos,
                                   all_quizzes_passed)
        IN /\ vidProg' = [vidProg EXCEPT ![user] = video_rows]
           /\ modProg' = [modProg EXCEPT ![user][module_id] = <<module_progress>>]
           /\ last' = Response("getModuleProgress", user, module_id, NoQuiz, HTTP_200_OK,
                [completed |-> is_completed,
                 videos |-> [v \in videos |-> video_rows[v][1].completed],
                 total_videos |-> total_videos,
                 total_watched |-> completed_videos,
                 video_completed |-> module_progress.video_completed,
                 progress_percentage |-> Percentage(completed_videos, total_videos),
                 quiz_progress |-> [q \in quizzes |->
                                      IF stuck THEN StuckEntry(q) ELSE QuizEntry(user, q)],
                 quiz_passed |-> all_quizzes_passed,
                 attempted |-> module_progress.attempted])
           /\ UNCHANGED <<static, courseProg, attempts>>

(***************************************************************************)
(* GetNextQuizView.get: GET module/<module_id>/next-quiz/                  *)
(***************************************************************************)
\* the quiz of the user's only attempt row in the module
\* (attempted_quizzes.order_by("-attempt_date").first().quiz)
LastAttemptQuiz(user, module_id) ==
    CHOOSE q \in QuizzesOf(module_id) : attempts[user][q] # <<>>

\* quizzes.filter(order=next_order).first(), None when no quiz has that order
QuizzesWithOrder(module_id, next_order) ==
    LET found == {q \in QuizzesOf(module_id) : catalog.quiz_order[q] = next_order}
    IN IF found = {} THEN {NoQuiz} ELSE found

\* NextQuizzes with next_order = last_attempt.quiz.order % quizzes.count()
NextQuizzesNoStep(user, module_id) ==
    LET quizzes == QuizzesOf(module_id)
        attempted_count == AttemptCount(attempts, user, module_id)
    IN IF attempted_count = 0 THEN FirstQuizzes(module_id)
       ELSE IF attempted_count >= 2 THEN FirstQuizzes(module_id)
       ELSE LET last_attempt == LastAttemptQuiz(user, module_id)
                next_order == catalog.quiz_order[last_attempt] % Cardinality(quizzes)
            IN QuizzesWithOrder(module_id, next_order)

\* the quizzes the handler may resolve to, before the "if next_quiz:" fallback
NextQuizzes(user, module_id) ==
    LET quizzes == QuizzesOf(module_id)
        attempted_count == AttemptCount(attempts, user, module_id)
    IN IF attempted_count = 0 THEN FirstQuizzes(module_id)
       ELSE IF attempted_count >= 2 THEN FirstQuizzes(module_id)
       ELSE LET last_attempt == LastAttemptQuiz(user, module_id)
                next_order == (catalog.quiz_order[last_attempt] % Cardinality(quizzes)) + 1
            IN QuizzesWithOrder(module_id, next_order)

GetNextQuiz(user, module_id) ==
    IF user = Anonymous THEN
        \* permission_classes = [IsAuthenticated]
        /\ last' = ErrorResponse("getNextQuiz", HTTP_401_UNAUTHORIZED)
        /\ UNCHANGED <<static, db>>
    ELSE IF module_id \notin catalog.modules THEN
        /\ last' = ErrorResponse("getNextQuiz", HTTP_404_NOT_FOUND)
        /\ UNCHANGED <<static, db>>
    ELSE
        \E found \in NextQuizzes(user, module_id) :
        \E next_quiz \in (IF found # NoQuiz THEN {found} ELSE FirstQuizzes(module_id)) :
            /\ attempts' = IF AttemptCount(attempts, user, module_id) >= 2
                           THEN DeleteAttempts(attempts, user, module_id)
                           ELSE attempts
            /\ last' = Response("getNextQuiz", user, module_id, NoQuiz, HTTP_200_OK,
                                [next_quiz |-> next_quiz])
            /\ UNCHANGED <<static, courseProg, modProg, vidProg>>

(***************************************************************************)
(* VideoProgressView: GET and PATCH progress/video/<video_id>/             *)
(***************************************************************************)
\* the video ids a request may name
VideoIds == {v \in Videos : catalog.video_module[v] \in catalog.modules} \cup {NoVideo}

\* request.user as this view resolves it: "authentication_classes = []" runs no
\* authenticator, so the credentials of the caller are not read
VideoRequestUser(caller) == Anonymous

\* the values of request.data.get("watched_seconds"), in half seconds
WatchedValues == {NoWatched} \cup 0..MaxHalfSeconds

\* int(ceil(watched_seconds)) of a value given in half seconds
CeilSeconds(watched_seconds) == (watched_seconds + 1) \div 2

\* WatchedVideoProgress with "> video.duration"
WatchedVideoProgressAbove(video_progress, watched_seconds, completed, duration) ==
    [video_progress EXCEPT
        !.watched_seconds = IF watched_seconds # 0 THEN CeilSeconds(watched_seconds) ELSE @,
        !.completed = IF CeilSeconds(watched_seconds) > duration \/ completed
                      THEN TRUE ELSE @]

\* WatchedVideoProgress with "video_progress.completed = ... >= video.duration or completed"
WatchedVideoProgressAssigned(video_progress, watched_seconds, completed, duration) ==
    [video_progress EXCEPT
        !.watched_seconds = IF watched_seconds # 0 THEN CeilSeconds(watched_seconds) ELSE @,
        !.completed = CeilSeconds(watched_seconds) >= duration \/ completed]

\* "if watched_seconds: video_progress.watched_seconds = int(ceil(watched_seconds));
\*  if int(ceil(watched_seconds)) >= video.duration or completed:
\*      video_progress.completed = True"
WatchedVideoProgress(video_progress, watched_seconds, completed, duration) ==
    [video_progress EXCEPT
        !.watched_seconds = IF watched_seconds # 0 THEN CeilSeconds(watched_seconds) ELSE @,
        !.completed = IF CeilSeconds(watched_seconds) >= duration \/ completed
                      THEN TRUE ELSE @]

\* UserVideoProgress.objects.filter(user=user, video__module=module,
\* completed=True).count(), on table rows
CompletedVideos(rows, user, m) ==
    Cardinality({v \in VideosOf(m) : rows[user][v] # <<>> /\ rows[user][v][1].completed})

\* WatchedModuleProgress with "completed_videos > 0"
WatchedModuleProgressAny(module_progress, completed_videos, total_videos) ==
    [module_progress EXCEPT !.video_completed = (completed_videos > 0)]

\* "module_progress.video_completed = completed_videos == total_videos"
WatchedModuleProgress(module_progress, completed_videos, total_videos) ==
    [module_progress EXCEPT !.video_completed = (completed_videos = total_videos)]

\* the request of a video-progress update and its response
VideoResponse(user, video_id, watched_seconds, completed, status, body) ==
    [op |-> "recordVideoWatch", user |-> user, module |-> catalog.video_module[video_id],
     quiz |-> NoQuiz, video |-> video_id,
     request |-> [watched_seconds |-> watched_seconds, completed |-> completed],
     status |-> status, body |-> body]

\* PATCH: user is request.user, watched_seconds and completed are the values
\* of request.data (completed: whether the value supplied is true)
RecordVideoWatch(user, video_id, watched_seconds, completed) ==
    IF user = Anonymous THEN
        /\ last' = ErrorResponse("recordVideoWatch", HTTP_401_UNAUTHORIZED)
        /\ UNCHANGED <<static, db>>
    ELSE IF video_id \notin VideoIds \ {NoVideo} THEN
        /\ last' = ErrorResponse("recordVideoWatch", HTTP_404_NOT_FOUND)
        /\ UNCHANGED <<static, db>>
    ELSE
        LET video_progress0 == GetOrCreate(vidProg[user][video_id], NewVideoProgress)
        IN IF watched_seconds = NoWatched THEN
               \* get_or_create has saved the row when int(ceil(None)) raises TypeError
               /\ vidProg' = [vidProg EXCEPT ![user][video_id] = <<video_progress0>>]
               /\ last' = VideoResponse(user, video_id, watched_seconds, completed,
                                        HTTP_500_INTERNAL_SERVER_ERROR, NoBody)
               /\ UNCHANGED <<static, courseProg, attempts, modProg>>
           ELSE
               LET video_progress ==
                       WatchedVideoProgress(video_progress0, watched_seconds, completed,
                                            catalog.duration[video_id])
                   rows == [vidProg EXCEPT ![user][video_id] = <<video_progress>>]
                   module == catalog.video_module[video_id]
                   total_videos == Cardinality(VideosOf(module))
                   completed_videos == CompletedVideos(rows, user, module)
                   module_progress ==
                       WatchedModuleProgress(
                           GetOrCreate(modProg[user][module], NewModuleProgress),
                           completed_videos, total_videos)
               IN /\ vidProg' = rows
                  /\ modProg' = [modProg EXCEPT ![user][module] = <<module_progress>>]
                  /\ last' = VideoResponse(user, video_id, watched_seconds, completed,
                                           HTTP_200_OK,
                                           [video |-> video_id,
                                            watched_seconds |-> video_progress.watched_seconds,
                                            completed |-> video_progress.completed])
                  /\ UNCHANGED <<static, courseProg, attempts>>

\* GET: user is request.user
GetVideoProgress(user, video_id) ==
    IF video_id \notin VideoIds \ {NoVideo} THEN
        /\ last' = ErrorResponse("getVideoProgress", HTTP_404_NOT_FOUND)
        /\ UNCHANGED <<static, db>>
    ELSE IF user = Anonymous THEN
        /\ last' = Response("getVideoProgress", user, catalog.video_module[video_id],
                            NoQuiz, HTTP_200_OK,
                            [video |-> video_id, watched_seconds |-> 0, completed |-> FALSE])
        /\ UNCHANGED <<static, db>>
    ELSE
        LET video_progress == GetOrCreate(vidProg[user][video_id], NewVideoProgress)
        IN /\ vidProg' = [vidProg EXCEPT ![user][video_id] = <<video_progress>>]
           /\ last' = Response("getVideoProgress", user, catalog.video_module[video_id],
                               NoQuiz, HTTP_200_OK,
                               [video |-> video_id,
                                watched_seconds |-> video_progress.watched_seconds,
                                completed |-> video_progress.completed])
           /\ UNCHANGED <<static, courseProg, attempts, modProg>>

(***************************************************************************)
(* CourseViewSet.list: GET courses/, and CourseProgressView: GET and PATCH *)
(* progress/course/<course_id>/                                            *)
(***************************************************************************)
\* the course ids a request may name
CourseIds == Courses \cup {UnknownCourse}

\* Module.objects.filter(course=course)
ModulesOf(course) == IF course = "c1" THEN catalog.modules ELSE {}

\* VideoLecture.objects.filter(module__in=modules)
CourseVideos(course) == UNION {VideosOf(m) : m \in ModulesOf(course)}

\* UserModuleProgress.objects.filter(user=user, module__in=modules, completed=True).count()
CompletedModules(user, course) ==
    Cardinality({m \in ModulesOf(course) :
                    modProg[user][m] # <<>> /\ modProg[user][m][1].completed})

\* UserVideoProgress.objects.filter(user=user, video__module__in=modules,
\* completed=True).count()
CompletedCourseVideos(user, course) ==
    Cardinality({v \in CourseVideos(course) :
                    vidProg[user][v] # <<>> /\ vidProg[user][v][1].completed})

\* round(num / den, 2), in hundredths
Round2(num, den) == (2 * 100 * num + den) \div (2 * den)

\* round((completed_modules / total_modules) * 50 if total_modules > 0 else 0
\*       + (completed_videos / total_videos) * 50 if total_videos > 0 else 0, 2),
\* in hundredths
WeightedPercentage(completed_modules, total_modules, completed_videos, total_videos) ==
    LET module_num == IF total_modules > 0 THEN 50 * completed_modules ELSE 0
        module_den == IF total_modules > 0 THEN total_modules ELSE 1
        video_num == IF total_videos > 0 THEN 50 * completed_videos ELSE 0
        video_den == IF total_videos > 0 THEN total_videos ELSE 1
    IN Round2(module_num * video_den + video_num * module_den, module_den * video_den)

\* round((completed_modules / total_modules) * 100 if total_modules > 0 else 0, 2),
\* in hundredths
ModulePercentage(completed_modules, total_modules) ==
    IF total_modules > 0 THEN Round2(100 * completed_modules, total_modules) ELSE 0

\* completed_modules == total_modules if total_modules > 0 else False
CourseCompleted(completed_modules, total_modules) ==
    total_modules > 0 /\ completed_modules = total_modules

\* UserCourseProgress field defaults, total_modules as the creating handler sets it
NewCourseProgress(total_modules) ==
    [completed_modules |-> 0, total_modules |-> total_modules, completed |-> FALSE]

\* get_or_create of the course-progress row, then "course_progress.completed_modules
\* = completed_modules; course_progress.completed = course_completed"
CountedCourseProgress(user, course) ==
    LET total_modules == Cardinality(ModulesOf(course))
        completed_modules == CompletedModules(user, course)
    IN [GetOrCreate(courseProg[user][course], NewCourseProgress(total_modules)) EXCEPT
            !.completed_modules = completed_modules,
            !.completed = CourseCompleted(completed_modules, total_modules)]

\* the progress_data of one course in the listing
ListedCourse(user, course) ==
    LET total_modules == Cardinality(ModulesOf(course))
        total_videos == Cardinality(CourseVideos(course))
    IN IF user = Anonymous THEN
           [completed_modules |-> 0, total_modules |-> total_modules,
            total_videos |-> total_videos, completed_videos |-> 0,
            progress_percentage |-> 0, completed |-> FALSE]
       ELSE
           LET completed_modules == CompletedModules(user, course)
               completed_videos == CompletedCourseVideos(user, course)
           IN [completed_modules |-> completed_modules, total_modules |-> total_modules,
               total_videos |-> total_videos, completed_videos |-> completed_videos,
               progress_percentage |->
                   WeightedPercentage(completed_modules, total_modules,
                                      completed_videos, total_videos),
               completed |-> CourseCompleted(completed_modules, total_modules)]

ListCourses(user) ==
    /\ courseProg' = IF user = Anonymous THEN courseProg
                     ELSE [courseProg EXCEPT ![user] =
                             [c \in Courses |-> <<CountedCourseProgress(user, c)>>]]
    /\ last' = Response("listCourses", user, NoModule, NoQuiz, HTTP_200_OK,
                        [c \in Courses |-> ListedCourse(user, c)])
    /\ UNCHANGED <<static, attempts, modProg, vidProg>>

PatchCourseProgress(user, course_id) ==
    IF user = Anonymous THEN
        \* permission_classes = [IsAuthenticated]
        /\ last' = ErrorResponse("patchCourseProgress", HTTP_401_UNAUTHORIZED)
        /\ UNCHANGED <<static, db>>
    ELSE IF course_id \notin Courses THEN
        /\ last' = ErrorResponse("patchCourseProgress", HTTP_404_NOT_FOUND)
        /\ UNCHANGED <<static, db>>
    ELSE
        LET total_modules == Cardinality(ModulesOf(course_id))
            completed_modules == CompletedModules(user, course_id)
        IN /\ courseProg' = [courseProg EXCEPT ![user][course_id] =
                                <<CountedCourseProgress(user, course_id)>>]
           /\ last' = Response("patchCourseProgress", user, NoModule, NoQuiz, HTTP_200_OK,
                               [course_id |-> course_id,
                                completed_modules |-> completed_modules,
                                total_modules |-> total_modules,
                                progress_percentage |->
                                    ModulePercentage(completed_modules, total_modules),
                                completed |-> CourseCompleted(completed_modules, total_modules)])
           /\ UNCHANGED <<static, attempts, modProg, vidProg>>

\* RetrieveUpdateAPIView.get: the serialized get_object()
GetCourseProgress(user, course_id) ==
    IF user = Anonymous THEN
        /\ last' = ErrorResponse("getCourseProgress", HTTP_401_UNAUTHORIZED)
        /\ UNCHANGED <<static, db>>
    ELSE IF course_id \notin Courses \/ courseProg[user][course_id] = <<>> THEN
        \* get_object_or_404(UserCourseProgress, user=user, course_id=course_id)
        /\ last' = Response("getCourseProgress", user, NoModule, NoQuiz,
                            HTTP_404_NOT_FOUND, [course |-> course_id])
        /\ UNCHANGED <<static, db>>
    ELSE
        LET course_progress == courseProg[user][course_id][1]
        IN /\ last' = Response("getCourseProgress", user, NoModule, NoQuiz, HTTP_200_OK,
                               [course |-> course_id,
                                completed_modules |-> course_progress.completed_modules,
                                total_modules |-> course_progress.total_modules,
                                completed |-> course_progress.completed])
           /\ UNCHANGED <<static, db>>

(***************************************************************************)
(* The admin site: admin.site.register(UserVideoProgress) lets staff save  *)
(* a progress row of a user and a video with the completed flag they set.  *)
(***************************************************************************)
\* a request of the admin site is no request of the engine
AdminResponse == Response("admin", Anonymous, NoModule, NoQuiz, HTTP_200_OK, NoBody)

AdminSaveVideoProgress(user, video_id, completed) ==
    /\ catalog.video_module[video_id] \in catalog.modules
    /\ vidProg' = [vidProg EXCEPT ![user][video_id] =
                     <<[GetOrCreate(@, NewVideoProgress) EXCEPT !.completed = completed]>>]
    /\ last' = AdminResponse
    /\ UNCHANGED <<static, courseProg, attempts, modProg>>

\* admin.site.register(UserModuleProgress): staff save a progress row of a user
\* and a module with the completed flag they set
AdminSaveModuleProgress(user, module_id, completed) ==
    /\ module_id \in catalog.modules
    /\ modProg' = [modProg EXCEPT ![user][module_id] =
                     <<[GetOrCreate(@, NewModuleProgress) EXCEPT !.completed = completed]>>]
    /\ last' = AdminResponse
    /\ UNCHANGED <<static, courseProg, attempts, vidProg>>

\* admin.site.register(Module): staff add a module to the course
AdminAddModule(module_id) ==
    /\ module_id \notin catalog.modules
    /\ catalog' = [catalog EXCEPT !.modules = @ \cup {module_id}]
    /\ last' = AdminResponse
    /\ UNCHANGED <<sheet, inflight, accounts, db>>

\* The requests of the engine as the views are wired: the video-progress view
\* resolves request.user itself, and answers an update before it reads the
\* request data.  The course requests of a registered user are explored under
\* SpecCourse.
Next ==
    \/ \E user \in Callers : \E request \in SubmitRequests(user) :
            SubmitQuiz(user, request[1], request[2], request[3])
    \/ \E user \in Callers, module_id \in ModuleIds :
            GetModuleProgress(user, module_id)
    \/ \E user \in Callers :
        \E module_id \in (IF user = Anonymous THEN {UnknownModule} ELSE ModuleIds) :
            GetNextQuiz(user, module_id)
    \/ \E user \in catalog.users, video_id \in Videos, completed \in BOOLEAN :
            AdminSaveVideoProgress(user, video_id, completed)
    \/ \E caller \in Callers, video_id \in VideoIds :
            RecordVideoWatch(VideoRequestUser(caller), video_id, MaxHalfSeconds, TRUE)
    \/ \E caller \in Callers, video_id \in VideoIds :
            GetVideoProgress(VideoRequestUser(caller), video_id)
    \/ ListCourses(Anonymous)
    \/ \E course_id \in CourseIds : PatchCourseProgress(Anonymous, course_id)
    \/ \E course_id \in CourseIds : GetCourseProgress(Anonymous, course_id)

Spec == Init /\ [][Next]_vars

(***************************************************************************)
(* SpecScore: the scoring of one submission.  One user, one module, one    *)
(* quiz of 1..MaxScoreQuestions questions; the client holds an answer      *)
(* mapping drawn in Init and submits it.                                   *)
(***************************************************************************)
ScoreCatalog(n) ==
    [Catalog(1, 1, 0, 0, 0, "authored") EXCEPT !.questions = [q \in Quizzes |-> n]]

InitScore ==
    /\ \E n \in 1..MaxScoreQuestions :
        /\ catalog = ScoreCatalog(n)
        /\ sheet \in NearSheets(n, n, MaxMissed)
    /\ attempts = [u \in Users |-> [q \in Quizzes |-> <<>>]]
    /\ modProg = [u \in Users |-> [m \in Modules |-> <<>>]]
    /\ vidProg = [u \in Users |-> [v \in Videos |-> <<>>]]
    /\ courseProg = [u \in Users |-> [c \in Courses |-> <<>>]]
    /\ last = Response("init", Anonymous, NoModule, NoQuiz, HTTP_200_OK, NoBody)
    /\ inflight = <<>>
    /\ accounts = <<>>

NextScore == SubmitQuiz("u1", "m1", 1, sheet)

SpecScore == InitScore /\ [][NextScore]_vars

(***************************************************************************)
(* SpecVideo: the video-progress handlers entered with request.user the    *)
(* caller, which is how their bodies run (rest_framework's forced          *)
(* authentication sets request.user without an authenticator), next to the *)
(* quiz requests and the module-progress read of a registered user.  The   *)
(* catalogues have a video, and at most one quiz.                          *)
(***************************************************************************)
VideoCatalogs ==
    {c \in Catalogs : /\ \E v \in Videos : c.video_module[v] # NoModule
                      /\ \A q \in Quizzes \ {1} : c.quiz_module[q] = NoModule}

\* The updates a caller may send: a video id with a watched-seconds value (or
\* none) and the completion flag (or none).  A caller without credentials and an
\* unknown video id are answered before the request data is read.
WatchRequests(user) ==
    IF user = Anonymous THEN {<<NoVideo, NoWatched, FALSE>>}
    ELSE {<<NoVideo, NoWatched, FALSE>>}
         \cup ((VideoIds \ {NoVideo}) \X WatchedValues \X BOOLEAN)

InitVideo ==
    /\ catalog \in VideoCatalogs
    /\ attempts = [u \in Users |-> [q \in Quizzes |-> <<>>]]
    /\ modProg = [u \in Users |-> [m \in Modules |-> <<>>]]
    /\ vidProg = [u \in Users |-> [v \in Videos |-> <<>>]]
    /\ courseProg = [u \in Users |-> [c \in Courses |-> <<>>]]
    /\ last = Response("init", Anonymous, NoModule, NoQuiz, HTTP_200_OK, NoBody)
    /\ sheet = <<>>
    /\ inflight = <<>>
    /\ accounts = <<>>

NextVideo ==
    \/ \E user \in Callers : \E request \in WatchRequests(user) :
            RecordVideoWatch(user, request[1], request[2], request[3])
    \/ \E user \in Callers, video_id \in VideoIds :
            GetVideoProgress(user, video_id)
    \/ \E user \in catalog.users, module_id \in catalog.modules :
            GetModuleProgress(user, module_id)
    \/ \E user \in catalog.users : \E request \in SubmitRequests(user) :
            SubmitQuiz(user, request[1], request[2], request[3])
    \/ \E user \in catalog.users, module_id \in catalog.modules :
            GetNextQuiz(user, module_id)

SpecVideo == InitVideo /\ [][NextVideo]_vars

(***************************************************************************)
(* SpecCourse: the course listing and the course-progress requests, over   *)
(* the module-progress and video-progress rows staff save and the modules  *)
(* staff add.  The catalogues have one user and no quiz.                   *)
(***************************************************************************)
CourseCatalogs ==
    {c \in Catalogs : c.users = {"u1"} /\ \A q \in Quizzes : c.quiz_module[q] = NoModule}

InitCourse ==
    /\ catalog \in CourseCatalogs
    /\ attempts = [u \in Users |-> [q \in Quizzes |-> <<>>]]
    /\ modProg = [u \in Users |-> [m \in Modules |-> <<>>]]
    /\ vidProg = [u \in Users |-> [v \in Videos |-> <<>>]]
    /\ courseProg = [u \in Users |-> [c \in Courses |-> <<>>]]
    /\ last = Response("init", Anonymous, NoModule, NoQuiz, HTTP_200_OK, NoBody)
    /\ sheet = <<>>
    /\ inflight = <<>>
    /\ accounts = <<>>

NextCourse ==
    \/ \E user \in Callers : ListCourses(user)
    \/ \E user \in Callers, course_id \in CourseIds : PatchCourseProgress(user, course_id)
    \/ \E user \in Callers, course_id \in CourseIds : GetCourseProgress(user, course_id)
    \/ \E user \in catalog.users, module_id \in catalog.modules, completed \in BOOLEAN :
            AdminSaveModuleProgress(user, module_id, completed)
    \/ \E user \in catalog.users, video_id \in Videos :
            AdminSaveVideoProgress(user, video_id, TRUE)
    \/ \E module_id \in Modules : AdminAddModule(module_id)

SpecCourse == InitCourse /\ [][NextCourse]_vars

(***************************************************************************)
(* SpecRace: two submissions handled at the same time (one worker each).   *)
(* SubmitQuizView.post runs outside a transaction, so each ORM call is a   *)
(* statement of its own and the statements of the two requests interleave. *)
(* UserQuizAttempt has no unique constraint on (user, quiz); the rows of   *)
(* this specification carry their primary key (id), which save() updates  *)
(* by.  Once both requests are answered the same submissions are sent      *)
(* again, one at a time.                                                   *)
(***************************************************************************)
Requests == {1, 2}
\* user_quiz_attempt before get_or_create has returned
NoRow == 0

\* two users, one module, quizzes 1 and 2 with orders 1 and 2
RaceCatalog == Catalog(2, 2, 0, 0, 0, "authored")

\* request.data["answers"]: every question answered right, or every one wrong
RaceSheets(n) == {[k \in 1..n |-> CorrectOption(k)], [k \in 1..n |-> WrongOption(k)]}

\* a request as it enters the handler
NewSubmission(user, quiz_id, submitted_answers) ==
    [pc |-> "get_attempt", user |-> user, module |-> catalog.quiz_module[quiz_id],
     quiz |-> quiz_id, answers |-> submitted_answers,
     user_quiz_attempt |-> NoRow, module_progress |-> NewModuleProgress,
     cycle_completed |-> 0]

\* score and passed of the request
SubmissionScore(request) ==
    Score(CorrectAnswers(catalog.questions[request.quiz], request.answers),
          catalog.questions[request.quiz])
SubmissionPassed(request) == Passed(SubmissionScore(request))

\* a UserQuizAttempt row with its primary key
WithId(row, id) == [score |-> row.score, passed |-> row.passed, id |-> id]

\* Model.save() of an attempt held by primary key: UPDATE ... WHERE id = pk, and
\* INSERT when no row was updated
SaveAttemptRow(rows, id, score, passed) ==
    IF \E i \in 1..Len(rows) : rows[i].id = id
    THEN [i \in 1..Len(rows) |->
            IF rows[i].id = id THEN [rows[i] EXCEPT !.score = score, !.passed = passed]
            ELSE rows[i]]
    ELSE Append(rows, WithId([NewQuizAttempt EXCEPT !.score = score, !.passed = passed], id))

\* the SELECT of UserQuizAttempt.objects.get_or_create(user=user, quiz=quiz)
AttemptGet(r) ==
    LET request == inflight[r]
        rows == attempts[request.user][request.quiz]
    IN /\ request.pc = "get_attempt"
       /\ inflight' = [inflight EXCEPT ![r] =
            IF Len(rows) > 1 THEN [@ EXCEPT !.pc = "error"]    \* MultipleObjectsReturned
            ELSE IF Len(rows) = 1
                 THEN [@ EXCEPT !.pc = "save_attempt", !.user_quiz_attempt = rows[1].id]
                 ELSE [@ EXCEPT !.pc = "create_attempt"]]
       /\ UNCHANGED <<catalog, sheet, accounts, db, last>>

\* the INSERT of get_or_create, after the SELECT found no row
AttemptCreate(r) ==
    LET request == inflight[r]
    IN /\ request.pc = "create_attempt"
       /\ attempts' = [attempts EXCEPT ![request.user][request.quiz] =
                          Append(@, WithId(NewQuizAttempt, r))]
       /\ inflight' = [inflight EXCEPT ![r].pc = "save_attempt",
                                       ![r].user_quiz_attempt = r]
       /\ UNCHANGED <<catalog, sheet, accounts, modProg, vidProg, courseProg, last>>

\* user_quiz_attempt.score = score; .passed = passed; user_quiz_attempt.save()
AttemptSave(r) ==
    LET request == inflight[r]
    IN /\ request.pc = "save_attempt"
       /\ attempts' = [attempts EXCEPT ![request.user][request.quiz] =
                          SaveAttemptRow(@, request.user_quiz_attempt,
                                         SubmissionScore(request), SubmissionPassed(request))]
       /\ inflight' = [inflight EXCEPT ![r].pc = "get_progress"]
       /\ UNCHANGED <<catalog, sheet, accounts, modProg, vidProg, courseProg, last>>

\* UserModuleProgress.objects.get_or_create(user=user, module=module), which the
\* unique (user, module) makes one step, then quiz_passed and completed are set
\* on the object the request holds
ProgressGet(r) ==
    LET request == inflight[r]
        row == GetOrCreate(modProg[request.user][request.module], NewModuleProgress)
    IN /\ request.pc = "get_progress"
       /\ modProg' = [modProg EXCEPT ![request.user][request.module] = <<row>>]
       /\ inflight' = [inflight EXCEPT ![r].pc = "save_progress",
                          ![r].module_progress =
                              ScoredModuleProgress(row, SubmissionPassed(request))]
       /\ UNCHANGED <<catalog, sheet, accounts, attempts, vidProg, courseProg, last>>

\* module_progress.save(): every field of the row is written from the object;
\* a passing request is answered next
ProgressSave(r) ==
    LET request == inflight[r]
    IN /\ request.pc = "save_progress"
       /\ modProg' = [modProg EXCEPT ![request.user][request.module] =
                         <<request.module_progress>>]
       /\ inflight' = [inflight EXCEPT ![r].pc =
                          IF SubmissionPassed(request) THEN "done" ELSE "count"]
       /\ UNCHANGED <<catalog, sheet, accounts, attempts, vidProg, courseProg, last>>

\* "cycle_completed = attempted_quizzes.count() // total_quizzes", and the left
\* operand of the "and" that follows
CycleCount(r) ==
    LET request == inflight[r]
        total_quizzes == Cardinality(QuizzesOf(request.module))
        attempted_count == AttemptCount(attempts, request.user, request.module)
    IN /\ request.pc = "count"
       /\ inflight' = [inflight EXCEPT
            ![r].cycle_completed = attempted_count \div total_quizzes,
            ![r].pc = IF catalog.quiz_order[request.quiz] = total_quizzes
                      THEN "check" ELSE "save_failed"]
       /\ UNCHANGED <<catalog, sheet, accounts, db, last>>

\* "cycle_completed * total_quizzes == attempted_quizzes.count()": the queryset
\* is counted again
CycleCheck(r) ==
    LET request == inflight[r]
        total_quizzes == Cardinality(QuizzesOf(request.module))
        attempted_count == AttemptCount(attempts, request.user, request.module)
    IN /\ request.pc = "check"
       /\ inflight' = [inflight EXCEPT ![r].pc =
            IF request.cycle_completed * total_quizzes = attempted_count
            THEN "delete" ELSE "save_failed"]
       /\ UNCHANGED <<catalog, sheet, accounts, db, last>>

\* UserQuizAttempt.objects.filter(user=user, quiz__module=module).delete()
CycleDelete(r) ==
    LET request == inflight[r]
    IN /\ request.pc = "delete"
       /\ attempts' = DeleteAttempts(attempts, request.user, request.module)
       /\ inflight' = [inflight EXCEPT ![r].pc = "save_failed"]
       /\ UNCHANGED <<catalog, sheet, accounts, modProg, vidProg, courseProg, last>>

\* completed and quiz_passed cleared, attempted += 1 on the object the request
\* holds, module_progress.save(); the request is answered
FailedSave(r) ==
    LET request == inflight[r]
        module_progress == FailedModuleProgress(request.module_progress)
    IN /\ request.pc = "save_failed"
       /\ modProg' = [modProg EXCEPT ![request.user][request.module] = <<module_progress>>]
       /\ inflight' = [inflight EXCEPT ![r].pc = "done",
                                       ![r].module_progress = module_progress]
       /\ UNCHANGED <<catalog, sheet, accounts, attempts, vidProg, courseProg, last>>

\* both requests are answered
Answered == \A r \in Requests : inflight[r].pc \in {"done", "error"}

\* a later submission of one of the two, handled alone
LaterSubmit(r) ==
    /\ Answered
    /\ SubmitQuiz(inflight[r].user, inflight[r].module, inflight[r].quiz, inflight[r].answers)

InitRace ==
    /\ catalog = RaceCatalog
    /\ attempts = [u \in Users |-> [q \in Quizzes |-> <<>>]]
    /\ modProg = [u \in Users |-> [m \in Modules |-> <<>>]]
    /\ vidProg = [u \in Users |-> [v \in Videos |-> <<>>]]
    /\ courseProg = [u \in Users |-> [c \in Courses |-> <<>>]]
    /\ last = Response("init", Anonymous, NoModule, NoQuiz, HTTP_200_OK, NoBody)
    /\ sheet = <<>>
    /\ accounts = <<>>
    /\ \E user \in catalog.users, quiz1 \in QuizzesOf("m1"), quiz2 \in QuizzesOf("m1") :
        \E answers1 \in RaceSheets(catalog.questions[quiz1]),
           answers2 \in RaceSheets(catalog.questions[quiz2]) :
            inflight = [r \in Requests |->
                          IF r = 1 THEN NewSubmission("u1", quiz1, answers1)
                          ELSE NewSubmission(user, quiz2, answers2)]

NextRace ==
    \/ \E r \in Requests : AttemptGet(r)
    \/ \E r \in Requests : AttemptCreate(r)
    \/ \E r \in Requests : AttemptSave(r)
    \/ \E r \in Requests : ProgressGet(r)
    \/ \E r \in Requests : ProgressSave(r)
    \/ \E r \in Requests : CycleCount(r)
    \/ \E r \in Requests : CycleCheck(r)
    \/ \E r \in Requests : CycleDelete(r)
    \/ \E r \in Requests : FailedSave(r)
    \/ \E r \in Requests : LaterSubmit(r)

SpecRace == InitRace /\ [][NextRace]_vars

(***************************************************************************)
(* SpecImport: the populate_quizzes management command, run by staff on a  *)
(* file whose rows name quizzes of one module, next to the quiz requests   *)
(* and the module-progress read of a registered user.  A quiz is named by  *)
(* its title; the quiz of title q takes the id q.                          *)
(***************************************************************************)
\* the command is no request of the engine
CommandResponse(module_id) ==
    Response("populate_quizzes", Anonymous, module_id, NoQuiz, HTTP_200_OK, NoBody)

\* handle(): "quiz, _ = Quiz.objects.get_or_create(title=row['Quiz'], order=1,
\* module=module)" for every row of the file; a title that has no quiz yet gets
\* one with order 1, a title whose quiz of this module has order 1 keeps it
PopulateQuizzes(module_id, titles) ==
    /\ module_id \in catalog.modules
    /\ titles # {}
    /\ \A q \in titles :
          \/ catalog.quiz_module[q] = NoModule
          \/ catalog.quiz_module[q] = module_id /\ catalog.quiz_order[q] = 1
    /\ catalog' = [catalog EXCEPT
            !.quiz_module = [q \in Quizzes |-> IF q \in titles THEN module_id ELSE @[q]],
            !.quiz_order  = [q \in Quizzes |-> IF q \in titles THEN 1 ELSE @[q]]]
    /\ last' = CommandResponse(module_id)
    /\ UNCHANGED <<sheet, inflight, accounts, db>>

\* one user and one module, without a quiz or with one authored quiz
ImportCatalogs == {Catalog(1, a, 0, 0, 0, "authored") : a \in 0..1}

InitImport ==
    /\ catalog \in ImportCatalogs
    /\ attempts = [u \in Users |-> [q \in Quizzes |-> <<>>]]
    /\ modProg = [u \in Users |-> [m \in Modules |-> <<>>]]
    /\ vidProg = [u \in Users |-> [v \in Videos |-> <<>>]]
    /\ courseProg = [u \in Users |-> [c \in Courses |-> <<>>]]
    /\ last = Response("init", Anonymous, NoModule, NoQuiz, HTTP_200_OK, NoBody)
    /\ sheet = <<>>
    /\ inflight = <<>>
    /\ accounts = <<>>

NextImport ==
    \/ \E module_id \in catalog.modules, titles \in SUBSET Quizzes :
            PopulateQuizzes(module_id, titles)
    \/ \E user \in catalog.users : \E request \in SubmitRequests(user) :
            SubmitQuiz(user, request[1], request[2], request[3])
    \/ \E user \in catalog.users, module_id \in catalog.modules :
            GetModuleProgress(user, module_id)
    \/ \E user \in catalog.users, module_id \in catalog.modules :
            GetNextQuiz(user, module_id)

SpecImport == InitImport /\ [][NextImport]_vars

(***************************************************************************)
(* SpecClient: one client that strictly alternates getNextQuiz and one     *)
(* submitQuiz of the quiz just returned, answered right or wrong, in a     *)
(* module of N quizzes of orders 1..N; after a submission it may read the  *)
(* module progress.  The client's place in the loop is the last response.  *)
(* The client never stops and every request is answered, hence the weak    *)
(* fairness of the loop.  Staff reset the attempted counter of the row in  *)
(* the admin site, which keeps the counter within MaxAttempted while the   *)
(* loop goes on.                                                           *)
(***************************************************************************)
\* "u1" and module "m1" with n quizzes of orders 1..n
ClientCatalogs == {Catalog(1, n, 0, 0, 0, "authored") : n \in 1..CatalogSize}

\* the client holds the answer of getNextQuiz
ClientHolds == last.op = "getNextQuiz" /\ last.status = HTTP_200_OK

\* the client asks for the next quiz: at first, and after each submission
ClientAsks(user, module_id) ==
    /\ ~ClientHolds
    /\ GetNextQuiz(user, module_id)

\* the client submits the quiz it was given, once
ClientSubmits(user, module_id) ==
    /\ ClientHolds
    /\ last.body.next_quiz # NoQuiz
    /\ \E submitted_answers \in OptionMaps(catalog.questions[last.body.next_quiz]) :
          SubmitQuiz(user, module_id, last.body.next_quiz, submitted_answers)

\* the client reads the module progress after a submission
ClientReads(user, module_id) ==
    /\ last.op = "submitQuiz"
    /\ GetModuleProgress(user, module_id)

\* admin.site.register(UserModuleProgress): staff save the row with attempted
\* set back to 0; no request of the client is involved
AdminResetAttempted(user, module_id) ==
    /\ modProg[user][module_id] # <<>>
    /\ modProg[user][module_id][1].attempted > 0
    /\ modProg' = [modProg EXCEPT ![user][module_id][1].attempted = 0]
    /\ UNCHANGED <<static, last, attempts, vidProg, courseProg>>

InitClient ==
    /\ catalog \in ClientCatalogs
    /\ attempts = [u \in Users |-> [q \in Quizzes |-> <<>>]]
    /\ modProg = [u \in Users |-> [m \in Modules |-> <<>>]]
    /\ vidProg = [u \in Users |-> [v \in Videos |-> <<>>]]
    /\ courseProg = [u \in Users |-> [c \in Courses |-> <<>>]]
    /\ last = Response("init", Anonymous, NoModule, NoQuiz, HTTP_200_OK, NoBody)
    /\ sheet = <<>>
    /\ inflight = <<>>
    /\ accounts = <<>>

NextClient ==
    \/ ClientAsks("u1", "m1")
    \/ ClientSubmits("u1", "m1")
    \/ ClientReads("u1", "m1")
    \/ AdminResetAttempted("u1", "m1")

SpecClient == InitClient /\ [][NextClient]_vars /\ WF_vars(NextClient)

(***************************************************************************)
(* ModuleProgressView.patch: PATCH progress/module/<module_id>/            *)
(***************************************************************************)
\* Module.order of the modules of the course, authored in sequence
ModuleOrder(m) == IF m = "m1" THEN 1 ELSE 2

\* Module.objects.filter(course=module.course, order=module.order + 1)
NextModules(m) ==
    {n \in catalog.modules : ModuleOrder(n) = ModuleOrder(m) + 1}

\* the loop over the quizzes: all_quizzes_passed stays True unless the first
\* attempt row of a quiz is not passed; a quiz without a row does not clear it
NoQuizFailed(user, module_id) ==
    \A q \in QuizzesOf(module_id) :
        attempts[user][q] # <<>> => attempts[user][q][1].passed

\* video_completed, quiz_passed and completed as the handler sets them
PatchedModuleProgress(module_progress, all_videos_watched, all_quizzes_passed) ==
    [module_progress EXCEPT !.video_completed = all_videos_watched,
                            !.quiz_passed = all_quizzes_passed,
                            !.completed = all_videos_watched /\ all_quizzes_passed]

PatchModuleProgress(user, module_id) ==
    IF module_id \notin catalog.modules THEN
        /\ last' = ErrorResponse("patchModuleProgress", HTTP_404_NOT_FOUND)
        /\ UNCHANGED <<static, db>>
    ELSE IF user = Anonymous THEN
        \* permission_classes = [AllowAny,]: filter(user=AnonymousUser) raises
        /\ last' = ErrorResponse("patchModuleProgress", HTTP_500_INTERNAL_SERVER_ERROR)
        /\ UNCHANGED <<static, db>>
    ELSE
        LET total_videos == Cardinality(VideosOf(module_id))
            completed_videos == CompletedVideos(vidProg, user, module_id)
            all_videos_watched == completed_videos = total_videos
            all_quizzes_passed == NoQuizFailed(user, module_id)
            module_progress ==
                PatchedModuleProgress(
                    GetOrCreate(modProg[user][module_id], NewModuleProgress),
                    all_videos_watched, all_quizzes_passed)
        IN /\ modProg' = [modProg EXCEPT ![user] = [m \in Modules |->
                            IF m = module_id THEN <<module_progress>>
                            ELSE IF module_progress.completed /\ m \in NextModules(module_id)
                                 THEN <<GetOrCreate(@[m], NewModuleProgress)>>
                                 ELSE @[m]]]
           /\ last' = Response("patchModuleProgress", user, module_id, NoQuiz, HTTP_200_OK,
                               [module |-> module_id,
                                video_completed |-> module_progress.video_completed,
                                quiz_passed |-> module_progress.quiz_passed,
                                completed |-> module_progress.completed])
           /\ UNCHANGED <<static, courseProg, attempts, vidProg>>

(***************************************************************************)
(* SpecModule: the module-progress read and update of a user, over the     *)
(* video-progress rows staff save and the quizzes the user submits.  The   *)
(* catalogues have one user.                                               *)
(***************************************************************************)
ModuleCatalogs == {c \in Catalogs : c.users = {"u1"}}

InitModule ==
    /\ catalog \in ModuleCatalogs
    /\ attempts = [u \in Users |-> [q \in Quizzes |-> <<>>]]
    /\ modProg = [u \in Users |-> [m \in Modules |-> <<>>]]
    /\ vidProg = [u \in Users |-> [v \in Videos |-> <<>>]]
    /\ courseProg = [u \in Users |-> [c \in Courses |-> <<>>]]
    /\ last = Response("init", Anonymous, NoModule, NoQuiz, HTTP_200_OK, NoBody)
    /\ sheet = <<>>
    /\ inflight = <<>>
    /\ accounts = <<>>

NextModule ==
    \/ \E user \in Callers, module_id \in ModuleIds : PatchModuleProgress(user, module_id)
    \/ \E user \in Callers, module_id \in ModuleIds : GetModuleProgress(user, module_id)
    \/ \E user \in catalog.users, video_id \in Videos, completed \in BOOLEAN :
            AdminSaveVideoProgress(user, video_id, completed)
    \/ \E user \in catalog.users : \E request \in SubmitRequests(user) :
            SubmitQuiz(user, request[1], request[2], request[3])

SpecModule == InitModule /\ [][NextModule]_vars

(***************************************************************************)
(* SpecAccount: the accounts of the users app (users/views.py): signup,    *)
(* register-user, login, forgot-password, reset-password, verify-user, and *)
(* the deactivation of a user by an authenticated caller                   *)
(* (AdminUsersListView.destroy).  An account is named by its email; the    *)
(* uid of verify-user and reset-password is the encoded email.             *)
(***************************************************************************)
HTTP_201_CREATED == 201
HTTP_400_BAD_REQUEST == 400

Emails == {"a@x.io", "b@x.io"}
Passwords == {"pw1", "pw2"}

\* a response of the users app, with the email the request names
AccountResponse(op, email, status) ==
    Response(op, email, NoModule, NoQuiz, status, NoBody)

\* User.objects.get(email=email) finds a row
Registered(email) == accounts[email] # <<>>
\* user.is_active of the registered user
IsActive(email) == Registered(email) /\ accounts[email][1].is_active

\* CustomUserManager.create_user without is_superuser: "user.is_active = False"
CreateUser(email, password) == [is_active |-> FALSE, password |-> password]

\* the serializers accept an email no user has with two equal passwords
ValidRegistration(email, password, confirm_password) ==
    ~Registered(email) /\ password = confirm_password

\* SignupView.post
Signup(email, password, confirm_password) ==
    /\ IF ValidRegistration(email, password, confirm_password)
       THEN /\ accounts' = [accounts EXCEPT ![email] = <<CreateUser(email, password)>>]
            /\ last' = AccountResponse("signup", email, HTTP_201_CREATED)
       ELSE /\ last' = AccountResponse("signup", email, HTTP_400_BAD_REQUEST)
            /\ UNCHANGED accounts
    /\ UNCHANGED <<catalog, sheet, inflight, db>>

\* SimpleUserRegisterViewSet.post: "user.is_active = True; user.save()"
RegisterUser(email, password, confirm_password) ==
    /\ IF ValidRegistration(email, password, confirm_password)
       THEN /\ accounts' = [accounts EXCEPT ![email] =
                              <<[CreateUser(email, password) EXCEPT !.is_active = TRUE]>>]
            /\ last' = AccountResponse("registerUser", email, HTTP_201_CREATED)
       ELSE /\ last' = AccountResponse("registerUser", email, HTTP_400_BAD_REQUEST)
            /\ UNCHANGED accounts
    /\ UNCHANGED <<catalog, sheet, inflight, db>>

\* LoginViewSet.post
Login(email, password) ==
    /\ last' = AccountResponse("login", email,
                  IF /\ Registered(email)
                     /\ accounts[email][1].password = password
                     /\ accounts[email][1].is_active
                  THEN HTTP_200_OK ELSE HTTP_401_UNAUTHORIZED)
    /\ UNCHANGED <<catalog, sheet, inflight, accounts, db>>

\* ForgotPasswordViewSet.post
ForgotPassword(email) ==
    /\ last' = AccountResponse("forgotPassword", email,
                  IF Registered(email) THEN HTTP_200_OK ELSE HTTP_404_NOT_FOUND)
    /\ UNCHANGED <<catalog, sheet, inflight, accounts, db>>

\* PasswordResetConfirmView.post
PasswordResetConfirm(email, password, confirm_password) ==
    /\ IF Registered(email) /\ password = confirm_password
       THEN /\ accounts' = [accounts EXCEPT ![email][1].password = password]
            /\ last' = AccountResponse("resetPassword", email, HTTP_200_OK)
       ELSE /\ last' = AccountResponse("resetPassword", email, HTTP_400_BAD_REQUEST)
            /\ UNCHANGED accounts
    /\ UNCHANGED <<catalog, sheet, inflight, db>>

\* VerifyAccountViewSet.get: "user.is_active = True; user.save()"
VerifyAccount(email) ==
    /\ IF Registered(email)
       THEN /\ accounts' = [accounts EXCEPT ![email][1].is_active = TRUE]
            /\ last' = AccountResponse("verifyAccount", email, HTTP_200_OK)
       ELSE /\ last' = AccountResponse("verifyAccount", email, HTTP_400_BAD_REQUEST)
            /\ UNCHANGED accounts
    /\ UNCHANGED <<catalog, sheet, inflight, db>>

\* AdminUsersListView.destroy: permission_classes = [IsAuthenticated]; the
\* queryset is User.objects.filter(is_active=True)
DeactivateUser(caller, email) ==
    /\ IF caller = Anonymous \/ ~IsActive(caller)
       THEN /\ last' = AccountResponse("deactivateUser", email, HTTP_401_UNAUTHORIZED)
            /\ UNCHANGED accounts
       ELSE IF ~IsActive(email)
       THEN /\ last' = AccountResponse("deactivateUser", email, HTTP_404_NOT_FOUND)
            /\ UNCHANGED accounts
       ELSE /\ accounts' = [accounts EXCEPT ![email][1].is_active = FALSE]
            /\ last' = AccountResponse("deactivateUser", email, HTTP_200_OK)
    /\ UNCHANGED <<catalog, sheet, inflight, db>>

\* no user has signed up
InitAccount ==
    /\ catalog = Catalog(1, 0, 0, 0, 0, "authored")
    /\ attempts = [u \in Users |-> [q \in Quizzes |-> <<>>]]
    /\ modProg = [u \in Users |-> [m \in Modules |-> <<>>]]
    /\ vidProg = [u \in Users |-> [v \in Videos |-> <<>>]]
    /\ courseProg = [u \in Users |-> [c \in Courses |-> <<>>]]
    /\ last = Response("init", Anonymous, NoModule, NoQuiz, HTTP_200_OK, NoBody)
    /\ sheet = <<>>
    /\ inflight = <<>>
    /\ accounts = [e \in Emails |-> <<>>]

NextAccount ==
    \/ \E email \in Emails, password \in Passwords, confirm_password \in Passwords :
            Signup(email, password, confirm_password)
    \/ \E email \in Emails, password \in Passwords, confirm_password \in Passwords :
            RegisterUser(email, password, confirm_password)
    \/ \E email \in Emails, password \in Passwords : Login(email, password)
    \/ \E email \in Emails : ForgotPassword(email)
    \/ \E email \in Emails, password \in Passwords, confirm_password \in Passwords :
            PasswordResetConfirm(email, password, confirm_password)
    \/ \E email \in Emails : VerifyAccount(email)
    \/ \E caller \in Emails \cup {Anonymous}, email \in Emails :
            DeactivateUser(caller, email)

SpecAccount == InitAccount /\ [][NextAccount]_vars

(***************************************************************************)
(* What the last request was.                                              *)
(***************************************************************************)
\* the last request was a submission that was scored
Submitted == last.op = "submitQuiz" /\ last.status = HTTP_200_OK
FailedSubmission == Submitted /\ ~last.body.quiz_passed
PassedSubmission == Submitted /\ last.body.quiz_passed

\* the attempted counter of a module-progress row, 0 when there is no row yet
AttemptedOf(rows) == IF rows = <<>> THEN 0 ELSE rows[1].attempted

\* no UserQuizAttempt row is deleted by the step
NoAttemptDeleted ==
    \A u \in Users, q \in Quizzes : Len(attempts'[u][q]) >= Len(attempts[u][q])

(***************************************************************************)
(* C1. A failing submission deletes the user's attempt rows of the module  *)
(* exactly when the quiz is the last one of the module (quiz.order equals  *)
(* the number of quizzes) and the number of the user's attempt rows of the *)
(* module, counted after the upsert, is a multiple of that number; it then *)
(* deletes all of them.  Every other failing submission deletes none.      *)
(***************************************************************************)
C1_Step ==
    FailedSubmission' =>
        LET u == last'.user
            m == last'.module
            q == last'.quiz
            n == Cardinality(QuizzesOf(m))
            upserted == AttemptCount(attempts, u, m)
                        + (IF attempts[u][q] = <<>> THEN 1 ELSE 0)
        IN IF catalog.quiz_order[q] = n /\ upserted % n = 0
           THEN \A r \in QuizzesOf(m) : attempts'[u][r] = <<>>
           ELSE NoAttemptDeleted

C1_FullCycleReset == [][C1_Step]_vars

\* a failing submission of the third quiz of three has just emptied the module
C1_Witness ==
    /\ FailedSubmission
    /\ Cardinality(QuizzesOf(last.module)) = 3
    /\ catalog.quiz_order[last.quiz] = 3
    /\ \A r \in QuizzesOf(last.module) : attempts[last.user][r] = <<>>

(***************************************************************************)
(* C2. After a failing submission the module-progress row of (user,        *)
(* module) has quiz_passed = false and completed = false, and its          *)
(* attempted counter is one greater than before the call (0 when there was *)
(* no row), whether or not the reset fired.                                *)
(***************************************************************************)
C2_Step ==
    FailedSubmission' =>
        LET before == modProg[last'.user][last'.module]
            after == modProg'[last'.user][last'.module]
        IN /\ Len(after) = 1
           /\ ~after[1].quiz_passed
           /\ ~after[1].completed
           /\ after[1].attempted = AttemptedOf(before) + 1

C2_FailedProgress == [][C2_Step]_vars

\* a failing submission of a quiz that is not the last one (no reset), on a
\* row that already counted a failure
C2_Witness ==
    /\ FailedSubmission
    /\ attempts[last.user][last.quiz] # <<>>
    /\ modProg[last.user][last.module][1].attempted >= 2

(***************************************************************************)
(* C3. After a passing submission the module-progress row has              *)
(* quiz_passed = true and completed equal to its video_completed flag, no  *)
(* attempt row is deleted, the attempted counter is unchanged, and the     *)
(* module_completed returned is the persisted completed flag.              *)
(***************************************************************************)
C3_Step ==
    PassedSubmission' =>
        LET before == modProg[last'.user][last'.module]
            after == modProg'[last'.user][last'.module]
        IN /\ Len(after) = 1
           /\ after[1].quiz_passed
           /\ after[1].completed = after[1].video_completed
           /\ NoAttemptDeleted
           /\ after[1].attempted = AttemptedOf(before)
           /\ last'.body.module_completed = after[1].completed

C3_PassedProgress == [][C3_Step]_vars

\* a passing submission that completed a module which has a video
C3_Witness ==
    /\ PassedSubmission
    /\ last.body.module_completed
    /\ VideosOf(last.module) # {}
    /\ modProg[last.user][last.module][1].attempted >= 1

(***************************************************************************)
(* C4. With requests served one after the other there is at most one       *)
(* attempt row per (user, quiz), and the row carries the score and passed  *)
(* flag of the most recent submission of that quiz: a step changes the     *)
(* rows of a (user, quiz) only by deleting them (a reset) or by a          *)
(* submission of that quiz by that user, which leaves its own result.      *)
(***************************************************************************)
C4_Step ==
    \A u \in Users, q \in Quizzes :
        LET own == Submitted' /\ last'.user = u /\ last'.quiz = q
            result == <<[score |-> last'.body.score, passed |-> last'.body.quiz_passed]>>
        IN /\ Len(attempts'[u][q]) <= 1
           /\ own => attempts'[u][q] \in {<<>>, result}
           /\ ~own => attempts'[u][q] \in {<<>>, attempts[u][q]}

C4_LatestAttempt == [][C4_Step]_vars

\* a failed attempt has been overwritten by a passing submission of the quiz
C4_Witness ==
    /\ PassedSubmission
    /\ attempts[last.user][last.quiz] = <<[score |-> 10000, passed |-> TRUE]>>
    /\ modProg[last.user][last.module][1].attempted >= 1
    /\ Cardinality(QuizzesOf(last.module)) >= 2
    /\ \A r \in QuizzesOf(last.module) \ {last.quiz} : attempts[last.user][r] = <<>>

Resolved == last.op = "getNextQuiz" /\ last.status = HTTP_200_OK
\* the last request was a module-progress read of an authenticated user
ReadProgress ==
    last.op = "getModuleProgress" /\ last.status = HTTP_200_OK /\ last.user # Anonymous

\* q is a quiz of module m of least order
LowestOrder(q, m) ==
    /\ q \in QuizzesOf(m)
    /\ \A r \in QuizzesOf(m) : catalog.quiz_order[q] <= catalog.quiz_order[r]

\* the quizzes of module m have the orders 1..N
OrdersAreOneToN(m) ==
    {catalog.quiz_order[q] : q \in QuizzesOf(m)} = 1..Cardinality(QuizzesOf(m))

(***************************************************************************)
(* C6. getNextQuiz called while the user has two or more attempt rows in   *)
(* the module deletes all of them, passed or failed, and returns a         *)
(* lowest-order quiz of the module; afterwards the user has no attempt row *)
(* in the module.                                                          *)
(***************************************************************************)
C6_Step ==
    (Resolved' /\ AttemptCount(attempts, last'.user, last'.module) >= 2) =>
        /\ \A q \in QuizzesOf(last'.module) : attempts'[last'.user][q] = <<>>
        /\ LowestOrder(last'.body.next_quiz, last'.module)

C7_Step ==
    LET u == last'.user
        m == last'.module
        N == Cardinality(QuizzesOf(m))
        next == last'.body.next_quiz
    IN (Resolved' /\ AttemptCount(attempts, u, m) < 2 /\ OrdersAreOneToN(m)) =>
        /\ attempts' = attempts
        /\ N = 0 => next = NoQuiz
        /\ N > 0 => next \in QuizzesOf(m)
        /\ (N > 0 /\ AttemptCount(attempts, u, m) = 0) => catalog.quiz_order[next] = 1
        /\ \A q \in QuizzesOf(m) :
            attempts[u][q] # <<>> =>
                catalog.quiz_order[next] = (catalog.quiz_order[q] % N) + 1

C7_NextQuizOrder == [][C7_Step]_vars

\* the single attempt is on the quiz of order 3 of 3, and order 1 is returned
C7_Witness ==
    /\ Resolved
    /\ Cardinality(QuizzesOf(last.module)) = 3
    /\ OrdersAreOneToN(last.module)
    /\ AttemptCount(attempts, last.user, last.module) = 1
    /\ \E q \in QuizzesOf(last.module) :
        attempts[last.user][q] # <<>> /\ catalog.quiz_order[q] = 3
    /\ catalog.quiz_order[last.body.next_quiz] = 1

(***************************************************************************)
(* C8. For an authenticated user, getModuleProgress reports every quiz     *)
(* entry as call_next = true, attempted = false, passed = false, and       *)
(* quiz_passed = false, when the user has an attempt row for every quiz of *)
(* the module and none is marked passed; in every other state no entry     *)
(* carries call_next = true.                                               *)
(***************************************************************************)
C8_StuckState ==
    ReadProgress =>
        LET u == last.user
            m == last.module
            entries == last.body.quiz_progress
            stuck == \A q \in QuizzesOf(m) :
                        /\ attempts[u][q] # <<>>
                        /\ \A i \in 1..Len(attempts[u][q]) : ~attempts[u][q][i].passed
        IN /\ DOMAIN entries = QuizzesOf(m)
           /\ stuck =>
                /\ ~last.body.quiz_passed
                /\ \A q \in QuizzesOf(m) :
                    entries[q] = [quiz_id |-> q, call_next |-> TRUE,
                                  attempted |-> FALSE, passed |-> FALSE]
           /\ ~stuck =>
                \A q \in QuizzesOf(m) :
                    ~("call_next" \in DOMAIN entries[q] /\ entries[q].call_next)

\* all three quizzes of a module attempted and failed, and reported stuck
C8_Witness ==
    /\ ReadProgress
    /\ Cardinality(QuizzesOf(last.module)) = 3
    /\ \A q \in QuizzesOf(last.module) :
        /\ attempts[last.user][q] # <<>>
        /\ last.body.quiz_progress[q] = [quiz_id |-> q, call_next |-> TRUE,
                                         attempted |-> FALSE, passed |-> FALSE]

(***************************************************************************)
(* C9. For an authenticated user, getModuleProgress reports completed =    *)
(* true iff every video of the module is completed by the user and every   *)
(* quiz of the module has an attempt row marked passed; and the persisted  *)
(* module-progress row's video_completed, quiz_passed and completed equal  *)
(* the values reported.                                                    *)
(***************************************************************************)
C9_Completed ==
    ReadProgress =>
        LET u == last.user
            m == last.module
            row == modProg[u][m][1]
        IN /\ last.body.completed <=>
                /\ \A v \in VideosOf(m) : vidProg[u][v] # <<>> /\ vidProg[u][v][1].completed
                /\ \A q \in QuizzesOf(m) : attempts[u][q] # <<>> /\ attempts[u][q][1].passed
           /\ row.video_completed = last.body.video_completed
           /\ row.quiz_passed = last.body.quiz_passed
           /\ row.completed = last.body.completed

(***************************************************************************)
(* C10. A getModuleProgress that follows a getModuleProgress of the same   *)
(* caller and module, with no other request in between, returns the same   *)
(* snapshot and leaves every persisted row unchanged.                      *)
(***************************************************************************)
C10_Step ==
    ( /\ last.op = "getModuleProgress" /\ last.status = HTTP_200_OK
      /\ last'.op = "getModuleProgress" /\ last'.status = HTTP_200_OK
      /\ last'.user = last.user /\ last'.module = last.module ) =>
        /\ last'.body = last.body
        /\ db' = db

C10_ReadIdempotent == [][C10_Step]_vars

\* a read of an authenticated user that created video rows and found a row
\* that has counted a failure
C10_Witness ==
    /\ ReadProgress
    /\ VideosOf(last.module) # {}
    /\ QuizzesOf(last.module) # {}
    /\ last.body.attempted >= 1
    /\ last.body.total_watched >= 1

(***************************************************************************)
(* What the last request was (video progress).                             *)
(***************************************************************************)
\* the last request was a video-progress update whose request data was read
WatchRequest == last.op = "recordVideoWatch" /\ "request" \in DOMAIN last
\* the last request was a video-progress update that succeeded
Watched == WatchRequest /\ last.status = HTTP_200_OK
\* the (user, video) row of the last video-progress update
WatchedRow == vidProg[last.user][last.video]

(***************************************************************************)
(* C11. A recordVideoWatch whose watched-seconds value is at least the     *)
(* duration of the video succeeds and leaves the (user, video) row with    *)
(* completed = true, whatever the row was before.                          *)
(***************************************************************************)
C11_WatchedThrough ==
    ( /\ WatchRequest
      /\ last.request.watched_seconds # NoWatched
      /\ last.request.watched_seconds >= 2 * catalog.duration[last.video] ) =>
        /\ last.status = HTTP_200_OK
        /\ WatchedRow # <<>>
        /\ WatchedRow[1].completed

\* exactly the duration of a video of 2 seconds is reported, without the flag
C11_Witness ==
    /\ Watched
    /\ catalog.duration[last.video] = 2
    /\ last.request.watched_seconds = 4
    /\ ~last.request.completed
    /\ WatchedRow[1].completed

(***************************************************************************)
(* C12. A recordVideoWatch that supplies the completion flag succeeds and  *)
(* sets completed = true on the (user, video) row, also when it supplies   *)
(* no watched-seconds value or one below the duration of the video.        *)
(***************************************************************************)
C12_ExplicitFlag ==
    (WatchRequest /\ last.request.completed) =>
        /\ last.status = HTTP_200_OK
        /\ WatchedRow # <<>>
        /\ WatchedRow[1].completed

(***************************************************************************)
(* C13. After a successful recordVideoWatch reporting w whole seconds, the *)
(* persisted watched_seconds of the (user, video) row is w, for w = 0 and  *)
(* for w below the value stored before as well.                            *)
(***************************************************************************)
C13_Overwrite ==
    (Watched /\ last.request.watched_seconds % 2 = 0) =>
        2 * WatchedRow[1].watched_seconds = last.request.watched_seconds

(***************************************************************************)
(* C14. Video completion is monotonic: a (user, video) row that has        *)
(* completed = true has it after every request of the engine (watch        *)
(* updates with smaller values, quiz submissions, resets, progress reads). *)
(***************************************************************************)
C14_Step ==
    \A u \in Users, v \in Videos :
        (vidProg[u][v] # <<>> /\ vidProg[u][v][1].completed) =>
            (vidProg'[u][v] # <<>> /\ vidProg'[u][v][1].completed)

C14_CompletionMonotonic == [][C14_Step]_vars

\* a watch update below the duration, without the flag, on a completed video
C14_Witness ==
    /\ Watched
    /\ CeilSeconds(last.request.watched_seconds) < catalog.duration[last.video]
    /\ ~last.request.completed
    /\ WatchedRow[1].completed

(***************************************************************************)
(* C15. After every successful recordVideoWatch on a video of module m,    *)
(* the module-progress row (user, m) has video_completed = true iff the    *)
(* user has a completed video-progress row for every video of m.           *)
(***************************************************************************)
C15_VideoCompleted ==
    Watched =>
        /\ modProg[last.user][last.module] # <<>>
        /\ modProg[last.user][last.module][1].video_completed <=>
            \A v \in VideosOf(last.module) :
                vidProg[last.user][v] # <<>> /\ vidProg[last.user][v][1].completed

\* the video just updated is completed, a sibling video is not
C15_Witness ==
    /\ Watched
    /\ WatchedRow[1].completed
    /\ \E v \in VideosOf(last.module) :
        vidProg[last.user][v] = <<>> \/ ~vidProg[last.user][v][1].completed
    /\ ~modProg[last.user][last.module][1].video_completed

(***************************************************************************)
(* C16. A request answered to an unauthenticated caller creates, modifies  *)
(* and deletes no row: the video-progress and module-progress reads return *)
(* a zero-value snapshot, the course listing reports no progress and       *)
(* persists no course-progress row, and a video-progress update is         *)
(* answered Unauthorized.                                                  *)
(***************************************************************************)
C16_Step ==
    (last'.user = Anonymous /\ last'.op # "admin") =>
        /\ db' = db
        /\ last'.op = "recordVideoWatch" => last'.status = HTTP_401_UNAUTHORIZED
        /\ (last'.op = "getVideoProgress" /\ last'.status = HTTP_200_OK) =>
            (last'.body.watched_seconds = 0 /\ ~last'.body.completed)
        /\ (last'.op = "getModuleProgress" /\ last'.status = HTTP_200_OK) =>
            /\ ~last'.body.completed /\ ~last'.body.video_completed
            /\ last'.body.total_watched = 0
            /\ \A v \in DOMAIN last'.body.videos : ~last'.body.videos[v]
        /\ last'.op = "listCourses" =>
            \A c \in Courses :
                /\ last'.body[c].completed_modules = 0
                /\ last'.body[c].completed_videos = 0
                /\ last'.body[c].progress_percentage = 0
                /\ ~last'.body[c].completed

C16_AnonymousReadOnly == [][C16_Step]_vars

\* the module-progress read of an anonymous caller, of a module of which a
\* registered user has completed a video
C16_Witness ==
    /\ last.op = "getModuleProgress" /\ last.status = HTTP_200_OK
    /\ last.user = Anonymous
    /\ \E u \in catalog.users, v \in VideosOf(last.module) :
        vidProg[u][v] # <<>> /\ vidProg[u][v][1].completed

(***************************************************************************)
(* C17. For an authenticated user the progress_percentage of a course is   *)
(* 50 * completed_modules / total_modules + 50 * completed_videos /        *)
(* total_videos (a term with denominator 0 being 0), and the course        *)
(* listing and the course-progress update both report this value.          *)
(***************************************************************************)
C17_Weighted ==
    /\ (last.op = "listCourses" /\ last.user # Anonymous) =>
        \A c \in Courses :
            last.body[c].progress_percentage =
                WeightedPercentage(CompletedModules(last.user, c),
                                   Cardinality(ModulesOf(c)),
                                   CompletedCourseVideos(last.user, c),
                                   Cardinality(CourseVideos(c)))
    /\ (last.op = "patchCourseProgress" /\ last.status = HTTP_200_OK) =>
        last.body.progress_percentage =
            WeightedPercentage(CompletedModules(last.user, last.body.course_id),
                               Cardinality(ModulesOf(last.body.course_id)),
                               CompletedCourseVideos(last.user, last.body.course_id),
                               Cardinality(CourseVideos(last.body.course_id)))

(***************************************************************************)
(* C18. After every course listing by an authenticated user, the           *)
(* course-progress row of each course has completed_modules = the number   *)
(* of the user's completed module-progress rows in the course,             *)
(* total_modules = the current number of modules of the course, and        *)
(* completed = (completed_modules = total_modules and total_modules > 0),  *)
(* also when modules were added after the row was created.                 *)
(***************************************************************************)
C18_Recount ==
    (last.op = "listCourses" /\ last.user # Anonymous) =>
        \A c \in Courses :
            /\ courseProg[last.user][c] # <<>>
            /\ courseProg[last.user][c][1].completed_modules = CompletedModules(last.user, c)
            /\ courseProg[last.user][c][1].total_modules = Cardinality(ModulesOf(c))
            /\ courseProg[last.user][c][1].completed <=>
                /\ Cardinality(ModulesOf(c)) > 0
                /\ CompletedModules(last.user, c) = Cardinality(ModulesOf(c))

(***************************************************************************)
(* C19. A course-progress read by an authenticated user for an existing    *)
(* course creates the course-progress row when there is none and returns   *)
(* a snapshot; it does not answer NotFound.                                *)
(***************************************************************************)
C19_LazyRead ==
    ( /\ last.op = "getCourseProgress"
      /\ last.user # Anonymous
      /\ last.body.course \in Courses ) =>
        /\ last.status = HTTP_200_OK
        /\ courseProg[last.user][last.body.course] # <<>>

(***************************************************************************)
(* C20. Every request is all-or-nothing: a request that ends in an error   *)
(* (NotFound, Unauthorized, or an unhandled failure) has created, modified *)
(* and deleted no row.                                                     *)
(***************************************************************************)
C20_Step == last'.status # HTTP_200_OK => db' = db

C20_AllOrNothing == [][C20_Step]_vars

(***************************************************************************)
(* Concurrent submissions (SpecRace).                                      *)
(***************************************************************************)
\* the two requests name the same (user, quiz)
SameKey == inflight[1].user = inflight[2].user /\ inflight[1].quiz = inflight[2].quiz
\* both requests are answered and nothing was submitted since
Settled == Answered /\ last.op = "init"

\* score and passed of the rows, without their primary keys
Plain(att) ==
    [u \in Users |-> [q \in Quizzes |->
        [i \in 1..Len(att[u][q]) |->
            [score |-> att[u][q][i].score, passed |-> att[u][q][i].passed]]]]

\* the attempt rows and module-progress rows after SubmitQuizView.post has
\* handled the request alone, from the rows in tables
SerialSubmit(tables, request) ==
    LET user == request.user
        passed == SubmissionPassed(request)
        written == [tables.attempts EXCEPT ![user][request.quiz] =
                        UpsertAttempt(@, SubmissionScore(request), passed)]
        progress1 == ScoredModuleProgress(
                        GetOrCreate(tables.modProg[user][request.module], NewModuleProgress),
                        passed)
        total_quizzes == Cardinality(QuizzesOf(request.module))
        attempted_count == AttemptCount(written, user, request.module)
    IN [attempts |-> IF ~passed /\ CycleClosed(request.quiz, total_quizzes, attempted_count)
                     THEN DeleteAttempts(written, user, request.module)
                     ELSE written,
        modProg  |-> [tables.modProg EXCEPT ![user][request.module] =
                        <<IF passed THEN progress1 ELSE FailedModuleProgress(progress1)>>]]

\* the tables before the two requests
EmptyTables ==
    [attempts |-> [u \in Users |-> [q \in Quizzes |-> <<>>]],
     modProg  |-> [u \in Users |-> [m \in Modules |-> <<>>]]]

\* C21: once two concurrent submissions of one user for one quiz are answered,
\* there is exactly one attempt row of that (user, quiz), it carries the score
\* and passed flag of one of the two submissions, and a later submission of
\* that quiz is answered 200.
C21_OneRow ==
    SameKey /\ Answered =>
        LET rows == attempts[inflight[1].user][inflight[1].quiz]
        IN /\ last.op = "init" =>
                /\ Len(rows) = 1
                /\ \E r \in Requests :
                      /\ rows[1].score = SubmissionScore(inflight[r])
                      /\ rows[1].passed = SubmissionPassed(inflight[r])
           /\ last.op = "submitQuiz" => last.status = HTTP_200_OK

\* C22: once two concurrent submissions on different (user, quiz) keys are
\* answered, the attempt rows and the module-progress rows (the attempted
\* counter included) are those of handling the two one after the other, in one
\* of the two orders.
C22_Serializable ==
    ~SameKey /\ Settled =>
        \E first \in Requests :
            LET second == CHOOSE r \in Requests : r # first
                serial == SerialSubmit(SerialSubmit(EmptyTables, inflight[first]),
                                       inflight[second])
            IN /\ Plain(attempts) = Plain(serial.attempts)
               /\ modProg = serial.modProg

(***************************************************************************)
(* C23. In every reachable state, the states the populate_quizzes importer *)
(* produces from a file that names several quizzes of one module included, *)
(* the quizzes of a module have pairwise distinct orders that are exactly  *)
(* 1..N.                                                                   *)
(***************************************************************************)
\* C23: the orders of the quizzes of every module are pairwise distinct and
\* are exactly 1..N.
C23_OrdersOneToN ==
    \A m \in catalog.modules :
        /\ \A q, r \in QuizzesOf(m) : q # r => catalog.quiz_order[q] # catalog.quiz_order[r]
        /\ OrdersAreOneToN(m)

(***************************************************************************)
(* C24. submitQuiz and getModuleProgress agree on module completion: when  *)
(* submitQuiz(user, module, quiz) returns module_completed = true, a       *)
(* getModuleProgress(user, module) issued immediately afterwards reports   *)
(* completed = true.                                                       *)
(***************************************************************************)
C24_Step ==
    /\ Submitted /\ last.body.module_completed
    /\ OrdersAreOneToN(last.module)
    /\ last'.op = "getModuleProgress" /\ last'.status = HTTP_200_OK
    /\ last'.user = last.user /\ last'.module = last.module
    => last'.body.completed

\* C24: a module-progress read that immediately follows a submission answered
\* module_completed = true, of the same user and module (its quizzes of orders
\* 1..N), reports completed = true.
C24_SubmitReadAgree == [][C24_Step]_vars

(***************************************************************************)
(* C25. getNextQuiz never revokes completion: if getModuleProgress(user,   *)
(* module) reports completed = true, then after any number of getNextQuiz  *)
(* (user, module) calls and no other operation it still reports            *)
(* completed = true.                                                       *)
(***************************************************************************)
\* what a module-progress read of the user reports as completed, from the rows
\* as they are: every video of the module has a completed row, the user is not
\* in the stuck state, and every quiz has a passed attempt
ReportsCompleted(user, module_id) ==
    /\ \A v \in VideosOf(module_id) :
          vidProg[user][v] # <<>> /\ vidProg[user][v][1].completed
    /\ ~(AllAttempted(user, module_id) /\ NonePassed(user, module_id))
    /\ AllQuizzesPassed(user, module_id)

C25_Step ==
    \A user \in catalog.users, module_id \in catalog.modules :
        /\ ReportsCompleted(user, module_id)
        /\ OrdersAreOneToN(module_id)
        /\ last'.op = "getNextQuiz" /\ last'.status = HTTP_200_OK
        /\ last'.user = user /\ last'.module = module_id
        => ReportsCompleted(user, module_id)'

\* C25: a getNextQuiz call of a user in a module (its quizzes of orders 1..N)
\* whose read reports completed = true leaves the rows such that the read still
\* reports completed = true.
C25_CompletionKept == [][C25_Step]_vars

(***************************************************************************)
(* C26. In a module whose N quizzes have the orders 1..N, a user who keeps *)
(* calling getNextQuiz and then fails the quiz it returned is eventually   *)
(* presented every quiz of the module.                                     *)
(***************************************************************************)
\* getNextQuiz has just returned quiz q
Presented(q) == Resolved /\ last.body.next_quiz = q

\* C26: for every quiz of the module, the client that never passes a quiz is
\* eventually presented that quiz: on every run of the loop, a submission
\* passes or the quiz is returned by getNextQuiz.
C26_FullCycle ==
    \A q \in Quizzes :
        <>(PassedSubmission \/ catalog.quiz_module[q] = NoModule \/ Presented(q))

(***************************************************************************)
(* C27. If the client strictly alternates getNextQuiz and a single         *)
(* submitQuiz of the quiz just returned (passing or failing), in a module  *)
(* of at least one quiz and orders 1..N, the stuck state is never reached. *)
(***************************************************************************)
\* the condition of the stuck branch of ModuleProgressView.get, under which
\* the read reports call_next = true
Stuck(user, module_id) == AllAttempted(user, module_id) /\ NonePassed(user, module_id)

\* C27: under the alternating client, in no reachable state does the user hold
\* an attempt row of every quiz of the module with none passed, and no
\* module-progress read reports a quiz with call_next = true.
C27_NeverStuck ==
    /\ ~Stuck("u1", "m1")
    /\ ReadProgress => \A q \in QuizzesOf(last.module) :
                            last.body.quiz_progress[q] # StuckEntry(q)

\* the client has failed the quiz of order N of a module of two or more quizzes
\* after failing another, which closed the cycle: no attempt row is left
C27_Witness ==
    /\ FailedSubmission
    /\ Cardinality(QuizzesOf("m1")) >= 2
    /\ catalog.quiz_order[last.quiz] = Cardinality(QuizzesOf("m1"))
    /\ modProg["u1"]["m1"][1].attempted >= 2
    /\ AttemptCount(attempts, "u1", "m1") = 0

(***************************************************************************)
(* C28. A caller presenting valid credentials to the video-progress        *)
(* endpoint is treated as authenticated by it: its update is processed and *)
(* persisted rather than answered Unauthorized, and its read returns the   *)
(* persisted (user, video) row rather than the zero-value snapshot.        *)
(***************************************************************************)
C28_Step ==
    \A caller \in catalog.users, video_id \in VideoIds \ {NoVideo} :
        /\ RecordVideoWatch(VideoRequestUser(caller), video_id, MaxHalfSeconds, TRUE)
           => RecordVideoWatch(caller, video_id, MaxHalfSeconds, TRUE)
        /\ GetVideoProgress(VideoRequestUser(caller), video_id)
           => GetVideoProgress(caller, video_id)

\* C28: what the video-progress view does with the update and with the read of
\* a registered caller is what its handlers do with request.user the caller:
\* the update is saved and answered 200, the read returns the caller's row.
C28_Authenticated == [][C28_Step]_vars

(***************************************************************************)
(* C29. For a module that has at least one video and no quiz, once the     *)
(* user has completed all of its videos getModuleProgress reports          *)
(* completed = true and quiz_passed = true, as the module-progress update  *)
(* (PATCH) does on the same state.                                         *)
(***************************************************************************)
\* the last request was a module-progress update of an authenticated user
PatchedProgress ==
    last.op = "patchModuleProgress" /\ last.status = HTTP_200_OK /\ last.user # Anonymous

\* C29: a module-progress read or update of a user who has completed every
\* video of a module of at least one video and no quiz reports completed = true
\* and quiz_passed = true.
C29_NoQuizCompleted ==
    /\ ReadProgress \/ PatchedProgress
    /\ QuizzesOf(last.module) = {}
    /\ VideosOf(last.module) # {}
    /\ CompletedVideos(vidProg, last.user, last.module) = Cardinality(VideosOf(last.module))
    => last.body.completed /\ last.body.quiz_passed

(***************************************************************************)
(* C30. Account activation gates login: a user created by signup cannot    *)
(* log in until verify-account has run for them, and a user deactivated    *)
(* through the deactivate endpoint stays inactive (login answers 401)      *)
(* under every subsequent public request, a verify-account request for     *)
(* that user's email included.                                             *)
(***************************************************************************)
C30_Step ==
    /\ last'.op = "login" /\ last'.status = HTTP_200_OK => IsActive(last'.user)
    /\ \A email \in Emails :
          \* an inactive account becomes active by verify-account only
          /\ Registered(email) /\ ~IsActive(email) /\ IsActive(email)'
             => last'.op = "verifyAccount" /\ last'.user = email
          \* the request that follows the deactivation leaves the account inactive
          /\ last.op = "deactivateUser" /\ last.status = HTTP_200_OK /\ last.user = email
             => ~IsActive(email)'

\* C30: a login is answered 200 for an active account only, an inactive
\* account is activated by verify-account only, and no request that follows the
\* deactivation of an account activates it.
C30_ActivationGatesLogin == [][C30_Step]_vars

====
